---- MODULE Spec2Model ----
(***************************************************************************)
(* Dual-arm Factory controller glue: FactoryBase_MARL2 (controller         *)
(* configuration parser, control-signal generation, command dispatch).     *)
(* Tensors of shape (num_envs, k) are functions from Envs to sequences of  *)
(* length k.  A Python attribute that holds None, or that was never        *)
(* assigned, is the empty tuple None; an assigned value v is Some(v).      *)
(***************************************************************************)
EXTENDS Integers, Sequences, FiniteSets, TLC

\* ---------------------------------------------------------------- bounds
NumEnvs == 2
MaxTicks == 3
MaxGain == 2
MaxTorqueSeed == 1
MaxAssetGain == 1
NumGripperSimSteps == 2
MaxEpisodeLength == 3
MaxSimTime == 9
MaxScale == 2
MaxShift == 1

\* ------------------------------------------------------ program constants
num_actors == 5
NumArmDofs == 7
NumGripperDofs == 2
NumAxes == 6
num_actions == 12
lift_distance == 3
NumLinks == 11
table_height == 4
nut_heights == 1
bolt_head_heights == 1
height_multiple == 3
success_bonus == 5
NumBodiesPerArm == 12

NumFrankaDofs == NumArmDofs + NumGripperDofs

Envs == 0 .. (NumEnvs - 1)

None == << >>
Some(v) == << v >>
Val(o) == o[1]

\* Python truthiness of a config flag: None and False are both falsy.
Truthy(o) == o # None /\ Val(o) = TRUE

\* tensor(v).repeat((num_envs, 1))
Repeat(v) == [e \in Envs |-> v]

\* torch.cat((a, b), dim=-1) on (num_envs, k) tensors
CatRows(a, b) == [e \in Envs |-> a[e] \o b[e]]

\* torch.cat((a, b), dim=0) on 1-D index tensors, kept as sequences
Cat0(a, b) == a \o b

Const(n, v) == [i \in 1 .. n |-> v]

\* ------------------------------------------------------------ mode names
RecognizedModes ==
    { "gym_default", "joint_space_ik", "joint_space_id", "task_space_impedance",
      "operational_space_motion", "open_loop_force", "closed_loop_force",
      "hybrid_force_motion" }

\* A name that none of the branches of parse_controller_spec tests for.
ConfiguredModes == RecognizedModes \cup { "unrecognized_mode" }

JacobianTypes == { "geometric", "analytic" }

\* Axis masks of the gain bundle: the first k axes on, or the axes after k on.
PrefixMask(k) == [i \in 1 .. NumAxes |-> IF i <= k THEN 1 ELSE 0]
SuffixMask(k) == [i \in 1 .. NumAxes |-> IF i > k THEN 1 ELSE 0]

\* The YAML bundle cfg_task.ctrl read by parse_controller_spec.  g scales
\* every gain, each gain family gets its own offset so that no two agree.
CfgTask(mode, jac, g, km, kf) ==
    [ ctrl_type |-> mode,
      jacobian_type |-> jac,
      all_gripper_prop_gains |-> Const(NumGripperDofs, 10 * g + 1),
      all_gripper_deriv_gains |-> Const(NumGripperDofs, 10 * g + 2),
      gym_gripper_prop_gains |-> Const(NumGripperDofs, 10 * g + 3),
      gym_gripper_deriv_gains |-> Const(NumGripperDofs, 10 * g + 4),
      joint_prop_gains |-> Const(NumArmDofs, 10 * g + 5),
      joint_deriv_gains |-> Const(NumArmDofs, 10 * g + 6),
      task_prop_gains |-> Const(NumAxes, 10 * g + 7),
      task_deriv_gains |-> Const(NumAxes, 10 * g + 8),
      wrench_prop_gains |-> Const(NumAxes, 10 * g + 9),
      ik_method |-> "dls",
      motion_ctrl_axes |-> PrefixMask(km),
      force_ctrl_axes |-> SuffixMask(kf) ]

CfgTasks ==
    { CfgTask(mode, jac, g, km, kf) :
        mode \in ConfiguredModes, jac \in JacobianTypes, g \in 1 .. MaxGain,
        km \in 0 .. NumAxes, kf \in 0 .. NumAxes }

\* --------------------------------------------------- controller config
cfg_ctrl_keys ==
    { "num_envs", "jacobian_type", "gripper_prop_gains", "gripper_deriv_gains",
      "motor_ctrl_mode", "gain_space", "ik_method", "joint_prop_gains",
      "joint_deriv_gains", "do_motion_ctrl", "task_prop_gains",
      "task_deriv_gains", "do_inertial_comp", "motion_ctrl_axes",
      "do_force_ctrl", "force_ctrl_method", "wrench_prop_gains",
      "force_ctrl_axes" }

EmptyCfgCtrlFalse == [k \in cfg_ctrl_keys |-> Some(FALSE)]

\* Line 582: self.cfg_ctrl = {cfg_ctrl_key: None for cfg_ctrl_key in cfg_ctrl_keys}
EmptyCfgCtrl == [k \in cfg_ctrl_keys |-> None]

\* cfg[k] = upd[k] for every key k of upd
Assign(cfg, upd) ==
    [k \in DOMAIN cfg |-> IF k \in DOMAIN upd THEN Some(upd[k]) ELSE cfg[k]]

\* Lines 582-591: every key None, then the four keys common to all modes.
CfgCommon(t) ==
    Assign(EmptyCfgCtrl,
           [ num_envs |-> NumEnvs,
             jacobian_type |-> t.jacobian_type,
             gripper_prop_gains |-> Repeat(t.all_gripper_prop_gains),
             gripper_deriv_gains |-> Repeat(t.all_gripper_deriv_gains) ])

\* Lines 600-611
PresetGymDefault(c, t) ==
    Assign(c, [ motor_ctrl_mode |-> "gym",
                gain_space |-> "joint",
                ik_method |-> t.ik_method,
                joint_prop_gains |-> Repeat(t.joint_prop_gains),
                joint_deriv_gains |-> Repeat(t.joint_deriv_gains),
                gripper_prop_gains |-> Repeat(t.gym_gripper_prop_gains),
                gripper_deriv_gains |-> Repeat(t.gym_gripper_deriv_gains) ])

PresetJointSpaceIkTaskGains(c, t) ==
    Assign(c, [ motor_ctrl_mode |-> "manual",
                gain_space |-> "task",
                ik_method |-> t.ik_method,
                joint_prop_gains |-> Repeat(t.joint_prop_gains),
                joint_deriv_gains |-> Repeat(t.joint_deriv_gains),
                do_inertial_comp |-> FALSE ])

\* Lines 612-620
PresetJointSpaceIk(c, t) ==
    Assign(c, [ motor_ctrl_mode |-> "manual",
                gain_space |-> "joint",
                ik_method |-> t.ik_method,
                joint_prop_gains |-> Repeat(t.joint_prop_gains),
                joint_deriv_gains |-> Repeat(t.joint_deriv_gains),
                do_inertial_comp |-> FALSE ])

\* Lines 624-633
PresetJointSpaceId(c, t) ==
    Assign(c, [ motor_ctrl_mode |-> "manual",
                gain_space |-> "joint",
                ik_method |-> t.ik_method,
                joint_prop_gains |-> Repeat(t.joint_prop_gains),
                joint_deriv_gains |-> Repeat(t.joint_deriv_gains),
                do_inertial_comp |-> TRUE ])

\* Lines 637-648
PresetTaskSpaceImpedance(c, t) ==
    Assign(c, [ motor_ctrl_mode |-> "manual",
                gain_space |-> "task",
                do_motion_ctrl |-> TRUE,
                task_prop_gains |-> Repeat(t.task_prop_gains),
                task_deriv_gains |-> Repeat(t.task_deriv_gains),
                do_inertial_comp |-> FALSE,
                motion_ctrl_axes |-> Repeat(t.motion_ctrl_axes),
                do_force_ctrl |-> FALSE ])

\* Lines 649-662
PresetOperationalSpaceMotion(c, t) ==
    Assign(c, [ motor_ctrl_mode |-> "manual",
                gain_space |-> "task",
                do_motion_ctrl |-> TRUE,
                task_prop_gains |-> Repeat(t.task_prop_gains),
                task_deriv_gains |-> Repeat(t.task_deriv_gains),
                do_inertial_comp |-> TRUE,
                motion_ctrl_axes |-> Repeat(t.motion_ctrl_axes),
                do_force_ctrl |-> FALSE ])

PresetOpenLoopForceNoInertialComp(c, t) ==
    Assign(c, [ motor_ctrl_mode |-> "manual",
                gain_space |-> "task",
                do_motion_ctrl |-> FALSE,
                do_inertial_comp |-> FALSE,
                do_force_ctrl |-> TRUE,
                force_ctrl_method |-> "open",
                force_ctrl_axes |-> Repeat(t.force_ctrl_axes) ])

\* Lines 663-670
PresetOpenLoopForce(c, t) ==
    Assign(c, [ motor_ctrl_mode |-> "manual",
                gain_space |-> "task",
                do_motion_ctrl |-> FALSE,
                do_force_ctrl |-> TRUE,
                force_ctrl_method |-> "open",
                force_ctrl_axes |-> Repeat(t.force_ctrl_axes) ])

\* Lines 671-680
PresetClosedLoopForce(c, t) ==
    Assign(c, [ motor_ctrl_mode |-> "manual",
                gain_space |-> "task",
                do_motion_ctrl |-> FALSE,
                do_force_ctrl |-> TRUE,
                force_ctrl_method |-> "closed",
                wrench_prop_gains |-> Repeat(t.wrench_prop_gains),
                force_ctrl_axes |-> Repeat(t.force_ctrl_axes) ])

PresetHybridForceMotionOpenLoop(c, t) ==
    Assign(c, [ motor_ctrl_mode |-> "manual",
                gain_space |-> "task",
                do_motion_ctrl |-> TRUE,
                task_prop_gains |-> Repeat(t.task_prop_gains),
                task_deriv_gains |-> Repeat(t.task_deriv_gains),
                do_inertial_comp |-> TRUE,
                motion_ctrl_axes |-> Repeat(t.motion_ctrl_axes),
                do_force_ctrl |-> TRUE,
                force_ctrl_method |-> "open",
                wrench_prop_gains |-> Repeat(t.wrench_prop_gains),
                force_ctrl_axes |-> Repeat(t.force_ctrl_axes) ])

\* Lines 681-697
PresetHybridForceMotion(c, t) ==
    Assign(c, [ motor_ctrl_mode |-> "manual",
                gain_space |-> "task",
                do_motion_ctrl |-> TRUE,
                task_prop_gains |-> Repeat(t.task_prop_gains),
                task_deriv_gains |-> Repeat(t.task_deriv_gains),
                do_inertial_comp |-> TRUE,
                motion_ctrl_axes |-> Repeat(t.motion_ctrl_axes),
                do_force_ctrl |-> TRUE,
                force_ctrl_method |-> "closed",
                wrench_prop_gains |-> Repeat(t.wrench_prop_gains),
                force_ctrl_axes |-> Repeat(t.force_ctrl_axes) ])

\* Lines 593-697: the if/elif chain over ctrl_type.  It has no else branch:
\* any other name falls through with the common keys only.
CfgPreset(t) ==
    LET c == CfgCommon(t)
        m == t.ctrl_type
    IN  CASE m = "gym_default" -> PresetGymDefault(c, t)
          [] m = "joint_space_ik" -> PresetJointSpaceIk(c, t)
          [] m = "joint_space_id" -> PresetJointSpaceId(c, t)
          [] m = "task_space_impedance" -> PresetTaskSpaceImpedance(c, t)
          [] m = "operational_space_motion" -> PresetOperationalSpaceMotion(c, t)
          [] m = "open_loop_force" -> PresetOpenLoopForce(c, t)
          [] m = "closed_loop_force" -> PresetClosedLoopForce(c, t)
          [] m = "hybrid_force_motion" -> PresetHybridForceMotion(c, t)
          [] OTHER -> c

\* ------------------------------------------------- actor DOF properties
Arms == { 1, 2 }

DofProps(mode, stiffness, damping) ==
    [ driveMode |-> Const(NumFrankaDofs, mode),
      stiffness |-> stiffness,
      damping |-> damping ]

\* Actors are spawned with default_dof_drive_mode = DOF_MODE_NONE and the
\* asset's own passive stiffness and damping d.
SpawnedDofProps(d) ==
    [e \in Envs |-> [a \in Arms |->
        DofProps("DOF_MODE_NONE", Const(NumFrankaDofs, d), Const(NumFrankaDofs, d))]]

\* Lines 699-711: the loop zips env_ptrs with franka_handles only.
GymDofProps(cfg, props) ==
    LET prop_gains == CatRows(Val(cfg.joint_prop_gains), Val(cfg.gripper_prop_gains))
        deriv_gains == CatRows(Val(cfg.joint_deriv_gains), Val(cfg.gripper_deriv_gains))
    IN  [e \in Envs |->
            [props[e] EXCEPT ![1] = DofProps("DOF_MODE_POS", prop_gains[e], deriv_gains[e])]]

ManualDofPropsFirstArmOnly(cfg, props) ==
    [e \in Envs |->
        [props[e] EXCEPT
            ![1] = DofProps("DOF_MODE_EFFORT", Const(NumFrankaDofs, 0), Const(NumFrankaDofs, 0))]]

\* Lines 712-734: the loop zips env_ptrs, franka_handles and franka_handles_2.
ManualDofProps(cfg, props) ==
    [e \in Envs |->
        [props[e] EXCEPT
            ![1] = DofProps("DOF_MODE_EFFORT", Const(NumFrankaDofs, 0), Const(NumFrankaDofs, 0)),
            ![2] = DofProps("DOF_MODE_EFFORT", Const(NumFrankaDofs, 0), Const(NumFrankaDofs, 0))]]

\* Lines 699-734: if 'gym' / elif 'manual'; with the mode unset neither runs.
SetDofProps(cfg, props) ==
    IF cfg.motor_ctrl_mode = Some("gym") THEN GymDofProps(cfg, props)
    ELSE IF cfg.motor_ctrl_mode = Some("manual") THEN ManualDofProps(cfg, props)
    ELSE props

\* ------------------------------------------------------- actor indices
\* Global (sim) index of the first arm's actor in each environment: the arm
\* is actor 0 of the num_actors actors of its environment.
franka_actor_ids_sim == [i \in 1 .. NumEnvs |-> (i - 1) * num_actors]

\* Global index of the second arm's actor in each environment.
franka_actor_ids_sim_2 == [i \in 1 .. NumEnvs |-> (i - 1) * num_actors + 1]

\* -------------------------------------------------------- control laws
TorqueSeeds == 0 .. MaxTorqueSeed

\* fc.compute_dof_torque: one arm's torques, 7 arm joints then 2 gripper
\* joints, per environment.  The numeric law is opaque here; the seed picks
\* one of its possible outputs, every entry of which is different.
compute_dof_torque(seed) ==
    [e \in Envs |-> [i \in 1 .. NumFrankaDofs |-> 100 * (seed + 1) + 10 * e + i]]

\* fc.compute_dof_torque_2: the same law for the second arm.
compute_dof_torque_2(seed) ==
    [e \in Envs |-> [i \in 1 .. NumFrankaDofs |-> 100 * (seed + 1) + 10 * e + i]]

\* fc.compute_dof_pos_target: joint position targets of one arm.
compute_dof_pos_target(seed) ==
    [e \in Envs |-> [i \in 1 .. NumFrankaDofs |-> 100 * (seed + 1) + 10 * e + i]]

\* ------------------------------------------------- tensors of the task
\* Python slice t[:, lo:hi] of a (num_envs, k) tensor.
Slice(t, lo, hi) == [e \in Envs |-> SubSeq(t[e], lo + 1, hi)]

VecAdd(a, b) == [e \in Envs |-> [i \in 1 .. Len(a[e]) |-> a[e][i] + b[e][i]]]
VecSub(a, b) == [e \in Envs |-> [i \in 1 .. Len(a[e]) |-> a[e][i] - b[e][i]]]

\* x @ torch.diag(scale): every column multiplied by its scale.
DiagScale(x, scale) == [e \in Envs |-> [i \in 1 .. Len(x[e]) |-> x[e][i] * scale[i]]]

\* The float NaN, as a value no other component takes.
NaN == 99

IsNaN(x) == x = NaN
FMul(x, y) == IF IsNaN(x) \/ IsNaN(y) THEN NaN ELSE x * y
FAdd(x, y) == IF IsNaN(x) \/ IsNaN(y) THEN NaN ELSE x + y
FSub(x, y) == IF IsNaN(x) \/ IsNaN(y) THEN NaN ELSE x - y

\* Float division x / y on the values that occur: 0 / 0 is NaN.
FDiv(x, y) == IF IsNaN(x) \/ IsNaN(y) \/ y = 0 THEN NaN ELSE x \div y

Abs(x) == IF x < 0 THEN 0 - x ELSE x

\* torch.norm(v, p=2) of a vector with at most one non-zero component,
\* which is all the rotation actions of this model are.
Norm(v) ==
    IF \E i \in 1 .. 3 : IsNaN(v[i]) THEN NaN
    ELSE Abs(v[1]) + Abs(v[2]) + Abs(v[3])

\* x > y on floats: every comparison with NaN is false.
FGt(x, y) == ~IsNaN(x) /\ ~IsNaN(y) /\ x > y

\* Angles are counted in half turns (pi), so the half angle of a rotation
\* is a quarter turn and its sine and cosine are integers.
Sin(k) == IF IsNaN(k) THEN NaN ELSE << 0, 1, 0, 0 - 1 >>[(k % 4) + 1]
Cos(k) == IF IsNaN(k) THEN NaN ELSE << 1, 0, 0 - 1, 0 >>[(k % 4) + 1]

\* Quaternions are (x, y, z, w), as torch_utils has them.
IdentityQuat == << 0, 0, 0, 1 >>
ZeroQuat == << 0, 0, 0, 0 >>
NaNQuat == << NaN, NaN, NaN, NaN >>
HasNaN(q) == \E i \in 1 .. Len(q) : IsNaN(q[i])

\* torch_utils.quat_from_angle_axis for one row: (axis * sin(angle / 2),
\* cos(angle / 2)), normalized; a NaN component makes the norm NaN and
\* with it every component.
QuatFromAngleAxisRow(angle, axis) ==
    LET q == << FMul(axis[1], Sin(angle)), FMul(axis[2], Sin(angle)),
                FMul(axis[3], Sin(angle)), Cos(angle) >>
    IN  IF IsNaN(angle) \/ HasNaN(axis) THEN NaNQuat ELSE q

\* torch_utils.quat_mul for one row (Hamilton product, w last).
QuatMulRow(a, b) ==
    LET x == FAdd(FSub(FAdd(FMul(a[4], b[1]), FMul(a[1], b[4])), FMul(a[3], b[2])), FMul(a[2], b[3]))
        y == FAdd(FSub(FAdd(FMul(a[4], b[2]), FMul(a[2], b[4])), FMul(a[1], b[3])), FMul(a[3], b[1]))
        z == FAdd(FSub(FAdd(FMul(a[4], b[3]), FMul(a[3], b[4])), FMul(a[2], b[1])), FMul(a[1], b[2]))
        w == FSub(FSub(FSub(FMul(a[4], b[4]), FMul(a[1], b[1])), FMul(a[2], b[2])), FMul(a[3], b[3]))
    IN  << x, y, z, w >>

quat_mul(a, b) == [e \in Envs |-> QuatMulRow(a[e], b[e])]

QuatConjugateRow(q) == << FSub(0, q[1]), FSub(0, q[2]), FSub(0, q[3]), q[4] >>

\* Rotation of vector v by quaternion q: q * (v, 0) * conj(q).
QuatApplyRow(q, v) ==
    SubSeq(QuatMulRow(QuatMulRow(q, << v[1], v[2], v[3], 0 >>), QuatConjugateRow(q)), 1, 3)

\* fc.translate_along_local_z: pos moved by offset along the z axis of quat.
translate_along_local_z(pos, quat, offset) ==
    [e \in Envs |->
        LET d == QuatApplyRow(quat[e], << 0, 0, offset >>)
        IN  [i \in 1 .. 3 |-> pos[e][i] + d[i]]]

\* torch.cross(a, b, dim=1)
Cross(a, b) ==
    [e \in Envs |->
        << a[e][2] * b[e][3] - a[e][3] * b[e][2],
           a[e][3] * b[e][1] - a[e][1] * b[e][3],
           a[e][1] * b[e][2] - a[e][2] * b[e][1] >>]

MidpointNotHalved(a, b) == [e \in Envs |-> [i \in 1 .. 3 |-> a[e][i] + b[e][i]]]

\* (a + b) * 0.5 on tensors whose sums are even.
Midpoint(a, b) == [e \in Envs |-> [i \in 1 .. 3 |-> (a[e][i] + b[e][i]) \div 2]]

\* Axis-angle vector of a quaternion of this model: a half turn about xyz
\* when w = 0, no rotation when w = 1 or -1.
AxisAngleFromQuatRow(q) ==
    IF HasNaN(q) THEN << NaN, NaN, NaN >>
    ELSE IF q[4] = 0 THEN SubSeq(q, 1, 3)
    ELSE << 0, 0, 0 >>

\* fc.get_pose_error with rot_error_type = 'axis_angle': position
\* difference, and the rotation taking the current orientation to the
\* target as an axis-angle vector.
get_pose_error(pos, quat, target_pos, target_quat) ==
    [ pos_error |-> VecSub(target_pos, pos),
      axis_angle_error |->
          [e \in Envs |->
              AxisAngleFromQuatRow(QuatMulRow(target_quat[e], QuatConjugateRow(quat[e])))] ]

\* ------------------------------------------- Jacobians and mass matrices
\* Lines 205-209: the simulator's Jacobian of one arm, a row per link (the
\* fixed base has none) and a column per joint of that arm, and its mass
\* matrix.  An entry is named by where it comes from and the simulator
\* time of its values; the 6 task-space rows are kept whole (0:6).
AcquiredJacobian(a, stamp) ==
    [link \in 0 .. NumLinks - 1 |->
        [dof \in 0 .. NumFrankaDofs - 1 |-> << a, link, dof, stamp >>]]

AcquiredMassMatrix(a, stamp) ==
    [row \in 0 .. NumFrankaDofs - 1 |->
        [col \in 0 .. NumFrankaDofs - 1 |-> << a, row, col, stamp >>]]

\* Lines 271-272: the two Jacobians side by side (axis 3), and that block
\* stacked on itself (axis 1): shape (22, 6, 18).
ConcatJacobian(j1, j2) ==
    [row \in 0 .. 2 * NumLinks - 1 |->
        [col \in 0 .. 2 * NumFrankaDofs - 1 |->
            IF col < NumFrankaDofs THEN j1[row % NumLinks][col]
            ELSE j2[row % NumLinks][col - NumFrankaDofs]]]

\* Line 264: the two mass matrices one above the other (axis 1): (18, 9).
ConcatMassMatrix(m1, m2) ==
    [row \in 0 .. 2 * NumFrankaDofs - 1 |->
        IF row < NumFrankaDofs THEN m1[row] ELSE m2[row - NumFrankaDofs]]

\* J[:, row, 0:6, lo:hi] and M[:, lo:hi, 0:7], as sequences.
JacobianView(J, row, lo, hi) == [i \in 1 .. hi - lo |-> J[row][lo + i - 1]]
MassMatrixView(M, lo, hi) ==
    [i \in 1 .. hi - lo |-> [j \in 1 .. NumArmDofs |-> M[lo + i - 1][j - 1]]]

\* Lines 374-377: body indices of the first arm within an environment; the
\* second arm's bodies follow the first arm's twelve.
BodyIdEnv ==
    [ hand |-> 8, left_finger |-> 9, right_finger |-> 10, fingertip_centered |-> 11 ]

BodyIdEnv2 == [b \in DOMAIN BodyIdEnv |-> BodyIdEnv[b] + NumBodiesPerArm]

ArmJacobianViewFirstArmColumns(J, a, body) ==
    IF a = 1 THEN JacobianView(J, BodyIdEnv[body] - 1, 0, 7)
    ELSE JacobianView(J, BodyIdEnv2[body] - 2, 0, 7)

\* Lines 385-450: hand_jacobian, left_finger_jacobian, right_finger_jacobian,
\* fingertip_centered_jacobian and their _2 counterparts.
ArmJacobianView(J, a, body) ==
    IF a = 1 THEN JacobianView(J, BodyIdEnv[body] - 1, 0, 7)
    ELSE JacobianView(J, BodyIdEnv2[body] - 2, 9, 16)

\* Lines 355-356: arm_mass_matrix and arm_mass_matrix_2.
ArmMassMatrixView(M, a) ==
    IF a = 1 THEN MassMatrixView(M, 0, 7) ELSE MassMatrixView(M, 9, 16)

\* Lines 353-354 and 435-436: the columns of dof_pos behind arm_dof_pos,
\* arm_dof_pos_2, gripper_dof_pos and gripper_dof_pos_2.
ArmDofRange(a) == IF a = 1 THEN 0 .. 7 - 1 ELSE 9 .. 16 - 1
GripperDofRange(a) == IF a = 1 THEN 7 .. 9 - 1 ELSE 16 .. 18 - 1

\* (left_finger_jacobian + right_finger_jacobian) * 0.5, entry by entry;
\* the mean of two entries is kept as the pair of them.
MidpointJacobian(J, a) ==
    [i \in 1 .. NumArmDofs |->
        << ArmJacobianView(J, a, "left_finger")[i],
           ArmJacobianView(J, a, "right_finger")[i] >>]

\* ---------------------------------------------------------------- state
VARIABLES
    cfg_task,                          \* the YAML bundle of this run
    has_fingertip_quat,                \* whether self.fingertip_quat exists
    pc,                                \* "constructed", "running" or "raised"
    cfg_ctrl,                          \* self.cfg_ctrl
    dof_props,                         \* simulator DOF properties per env, arm
    fingertip_midpoint_jacobian_tf,    \* call that last assigned it, or None
    fingertip_midpoint_jacobian_tf_2,
    dof_torque,                        \* self.dof_torque
    dof_torque_2,                      \* self.dof_torque_2
    ctrl_target_dof_pos,               \* self.ctrl_target_dof_pos
    franka_actor_ids_sim_concat,       \* self.franka_actor_ids_sim_concat
    writes,                            \* indexed writes of the latest call
    num_calls,                         \* calls of generate_ctrl_signals so far
    concat_builds,                     \* times the combined id list was built
    arm_torque,                        \* what compute_dof_torque last returned
    task_yaml_params,                  \* the task's rl, env and asset settings
    loc,                               \* where the task's control flow stands
    site,                              \* which caller applies actions
    iter,                              \* iterations left of the running loop
    sim_time,                          \* gym.simulate calls so far
    refreshed_at,                      \* sim_time of the state the views hold
    jacobian,                          \* sim_time of the values in self.jacobian
    mass_matrix,                       \* sim_time of the values in self.mass_matrix
    last_op,                           \* operation that ran last
    progress_buf,                      \* self.progress_buf
    reset_buf,                         \* self.reset_buf
    actions,                           \* self.actions
    ctrl_target,                       \* the ctrl_target_* attributes of self
    torque_inputs,                     \* targets the torque laws last consumed
    commands_since_simulate,           \* command writes since the last simulate
    sim_body_state,                    \* rigid-body states inside the simulator
    body_state,                        \* self.body_state and its views
    fingertip_midpoint,                \* derived midpoint frame of each arm
    dof_state,                         \* self.dof_pos and self.dof_vel
    root_state,                        \* root positions of the nut and the bolt
    state_writes,                      \* indexed state writes of the latest reset
    env_ids,                           \* argument of the latest reset_idx
    rew_buf                            \* self.rew_buf

baseVars ==
    << cfg_task, has_fingertip_quat, pc, cfg_ctrl, dof_props,
       fingertip_midpoint_jacobian_tf, fingertip_midpoint_jacobian_tf_2,
       dof_torque, dof_torque_2, ctrl_target_dof_pos,
       franka_actor_ids_sim_concat, writes, num_calls, concat_builds,
       arm_torque >>

\* Variables only the task's loop writes.
loopVars ==
    << site, iter, sim_time, refreshed_at, jacobian, mass_matrix,
       progress_buf, reset_buf, actions >>

kinVars == << sim_body_state, body_state, fingertip_midpoint >>

\* Variables the resets write.
resetVars == << dof_state, root_state, state_writes, env_ids >>

vars ==
    << baseVars, task_yaml_params, loc, last_op, loopVars, ctrl_target,
       torque_inputs, commands_since_simulate, kinVars, resetVars, rew_buf >>

\* self.jacobian and self.mass_matrix: the concatenated tensors with the
\* values of the time they were last filled.
jacobian_tensor ==
    ConcatJacobian(AcquiredJacobian(1, jacobian), AcquiredJacobian(2, jacobian))

mass_matrix_tensor ==
    ConcatMassMatrix(AcquiredMassMatrix(1, mass_matrix), AcquiredMassMatrix(2, mass_matrix))

\* _get_task_yaml_params and the YAML values the task reads later: the rl
\* section (clamp_rot, action scales, max_episode_length), the env section
\* (close_and_lift, sim step counts, numActions) and the Franka asset info.
TaskYamlParams(clamp_rot, close_and_lift, scale) ==
    [ clamp_rot |-> clamp_rot,
      clamp_rot_thresh |-> 0,
      pos_action_scale |-> << scale, scale, scale >>,
      rot_action_scale |-> << scale, scale, scale >>,
      force_action_scale |-> << scale, scale, scale >>,
      torque_action_scale |-> << scale, scale, scale >>,
      close_and_lift |-> close_and_lift,
      num_gripper_move_sim_steps |-> NumGripperSimSteps,
      num_gripper_close_sim_steps |-> NumGripperSimSteps,
      num_gripper_lift_sim_steps |-> NumGripperSimSteps,
      numActions |-> 2 * num_actions,
      max_episode_length |-> MaxEpisodeLength,
      franka_gripper_width_max |-> 8,
      franka_finger_length |-> 1 ]

\* Rigid-body state of one arm's bodies, every field a (num_envs, k) tensor.
ArmBodyState(hand_pos, hand_quat, hand_linvel, hand_angvel, finger_gap, centered_pos, centered_quat, centered_linvel, centered_angvel) ==
    [ hand_pos |-> Repeat(hand_pos),
      hand_quat |-> Repeat(hand_quat),
      hand_linvel |-> Repeat(hand_linvel),
      hand_angvel |-> Repeat(hand_angvel),
      left_finger_pos |-> Repeat([i \in 1 .. 3 |-> hand_pos[i] + finger_gap[i]]),
      right_finger_pos |-> Repeat([i \in 1 .. 3 |-> hand_pos[i] - finger_gap[i]]),
      fingertip_centered_pos |-> Repeat(centered_pos),
      fingertip_centered_quat |-> Repeat(centered_quat),
      fingertip_centered_linvel |-> Repeat(centered_linvel),
      fingertip_centered_angvel |-> Repeat(centered_angvel) ]

\* The scene as import_franka_assets and the env class spawn it: both arms
\* at rest, the second one displaced from the first.
SpawnedBodyState ==
    [ a \in Arms |->
        ArmBodyState(<< a, 0, 4 >>, IdentityQuat, << 0, 0, 0 >>, << 0, 0, 0 >>,
                     << 0, 1, 0 >>, << a, 0, 5 >>, IdentityQuat,
                     << 0, 0, 0 >>, << 0, 0, 0 >>) ]

\* Lines 452-475: the midpoint frame starts as a copy of the
\* fingertip-centered body's position and linear velocity, with the mean
\* of the finger Jacobians.
AcquiredFingertipMidpoint(b) ==
    [ a \in Arms |-> [ pos |-> b[a].fingertip_centered_pos,
                       linvel |-> b[a].fingertip_centered_linvel,
                       jacobian |-> MidpointJacobian(jacobian_tensor, a) ] ]

\* Lines 479-486 and 506-514: every target starts as zeros; the task's
\* second_ctrl_target_* attributes do not exist before the first assignment.
AcquiredCtrlTarget ==
    [ ctrl_target_fingertip_midpoint_pos |-> Repeat(Const(3, 0)),
      ctrl_target_fingertip_midpoint_quat |-> Repeat(ZeroQuat),
      ctrl_target_gripper_dof_pos |-> Repeat(Const(NumGripperDofs, 0)),
      ctrl_target_fingertip_contact_wrench |-> Repeat(Const(NumAxes, 0)),
      ctrl_target_fingertip_midpoint_pos_2 |-> Repeat(Const(3, 0)),
      ctrl_target_fingertip_midpoint_quat_2 |-> Repeat(ZeroQuat),
      ctrl_target_gripper_dof_pos_2 |-> Repeat(Const(NumGripperDofs, 0)),
      ctrl_target_fingertip_contact_wrench_2 |-> Repeat(Const(NumAxes, 0)),
      second_ctrl_target_fingertip_midpoint_pos |-> None,
      second_ctrl_target_fingertip_midpoint_quat |-> None,
      second_ctrl_target_gripper_dof_pos |-> None,
      second_ctrl_target_fingertip_contact_wrench |-> None ]

\* Joint state as the simulator spawns the arms: every joint at 1, at rest.
SpawnedDofState ==
    [ pos |-> Repeat(Const(2 * NumFrankaDofs, 1)),
      vel |-> Repeat(Const(2 * NumFrankaDofs, 0)) ]

\* The nut and the bolt as spawned, beside the places a reset puts them.
SpawnedRootState ==
    [ nut_pos |-> Repeat(<< 1, 1, table_height >>),
      bolt_pos |-> Repeat(<< 2, 2, table_height >>) ]

\* What the task's loop starts from: no simulate yet, all views current,
\* every environment due for its first reset.
\* The buffers as the VecTask base class allocates them: every counter 0,
\* every environment flagged for reset.
AllocatedProgressBuf == Repeat(0)
AllocatedResetBuf == Repeat(1)

AcquiredTaskState ==
    /\ dof_state = SpawnedDofState
    /\ root_state = SpawnedRootState
    /\ state_writes = << >>
    /\ env_ids = { }
    /\ rew_buf = Repeat(0)
    /\ site = "none"
    /\ iter = 0
    /\ sim_time = 0
    /\ refreshed_at = 0
    /\ jacobian = 0
    /\ mass_matrix = 0
    /\ last_op = "acquire_base_tensors"
    /\ progress_buf = AllocatedProgressBuf
    /\ reset_buf = AllocatedResetBuf
    /\ actions = None
    /\ ctrl_target = AcquiredCtrlTarget
    /\ torque_inputs = [a \in Arms |-> None]
    /\ commands_since_simulate = 0
    /\ body_state = sim_body_state
    /\ fingertip_midpoint = AcquiredFingertipMidpoint(body_state)

\* State after acquire_base_tensors, before parse_controller_spec.
AcquiredBaseState ==
    /\ has_fingertip_quat \in BOOLEAN
    /\ pc = "constructed"
    /\ cfg_ctrl = EmptyCfgCtrl
    /\ \E d \in 0 .. MaxAssetGain : dof_props = SpawnedDofProps(d)
    /\ fingertip_midpoint_jacobian_tf = None
    /\ fingertip_midpoint_jacobian_tf_2 = None
    /\ dof_torque = Repeat(Const(2 * NumFrankaDofs, 0))
    /\ dof_torque_2 = None
    /\ ctrl_target_dof_pos = Repeat(Const(2 * NumFrankaDofs, 0))
    /\ franka_actor_ids_sim_concat = None
    /\ writes = << >>
    /\ num_calls = 0
    /\ concat_builds = 0
    /\ arm_torque = None

Init ==
    /\ cfg_task \in CfgTasks
    /\ AcquiredBaseState
    /\ task_yaml_params = TaskYamlParams(TRUE, FALSE, 1)
    /\ loc = "base"
    /\ sim_body_state = SpawnedBodyState
    /\ AcquiredTaskState

\* parse_controller_spec, called once from the task's __init__.
parse_controller_spec ==
    /\ pc = "constructed"
    /\ cfg_ctrl' = CfgPreset(cfg_task)
    /\ dof_props' = SetDofProps(cfg_ctrl', dof_props)
    /\ pc' = "running"
    /\ UNCHANGED << cfg_task, has_fingertip_quat, fingertip_midpoint_jacobian_tf,
                    fingertip_midpoint_jacobian_tf_2, dof_torque, dof_torque_2,
                    ctrl_target_dof_pos, franka_actor_ids_sim_concat, writes,
                    num_calls, concat_builds, arm_torque >>
    /\ last_op' = "parse_controller_spec"
    /\ UNCHANGED << task_yaml_params, loc, loopVars, ctrl_target,
                    torque_inputs, commands_since_simulate, kinVars,
                    resetVars, rew_buf >>

Write(api, data, ids) == [ api |-> api, data |-> data, ids |-> ids ]

\* Line 775: self.dof_torque = torch.cat((self.dof_torque, self.dof_torque_2), dim=1)
CombineTorqueSwapped(t1, t2) == CatRows(t2, t1)

CombineTorque(t1, t2) == CatRows(t1, t2)

\* Line 826: the combined actor-index list
ConcatActorIds == Cat0(franka_actor_ids_sim, franka_actor_ids_sim_2)

\* Lines 747-758, analytic branch reading self.fingertip_quat, which no
\* code of the base class assigns: AttributeError before anything is set.
JacobianRaises ==
    /\ cfg_ctrl.jacobian_type = Some("analytic")
    /\ ~has_fingertip_quat

\* Lines 749-750 assign both arms' transformed Jacobian, line 754 only the
\* first arm's.
JacobianTf2AfterSelect ==
    IF cfg_ctrl.jacobian_type = Some("geometric")
    THEN Some(num_calls + 1)
    ELSE fingertip_midpoint_jacobian_tf_2

\* Views of the refreshed state that the setters and the task read.
fingertip_midpoint_pos == fingertip_midpoint[1].pos
fingertip_midpoint_quat == body_state[1].fingertip_centered_quat
fingertip_midpoint_pos_2 == fingertip_midpoint[2].pos
fingertip_midpoint_quat_2 == body_state[2].fingertip_centered_quat

\* The env class's names for the second arm's midpoint frame.
second_fingertip_midpoint_pos == fingertip_midpoint[2].pos
second_fingertip_midpoint_quat == body_state[2].fingertip_centered_quat

\* Lines 837-852: what _set_dof_torque hands to fc.compute_dof_torque.
SetDofTorqueInputs(t) ==
    [ fingertip_midpoint_pos |-> fingertip_midpoint_pos,
      fingertip_midpoint_quat |-> fingertip_midpoint_quat,
      ctrl_target_gripper_dof_pos |-> t.ctrl_target_gripper_dof_pos,
      ctrl_target_fingertip_midpoint_pos |-> t.ctrl_target_fingertip_midpoint_pos,
      ctrl_target_fingertip_midpoint_quat |-> t.ctrl_target_fingertip_midpoint_quat,
      ctrl_target_fingertip_contact_wrench |-> t.ctrl_target_fingertip_contact_wrench ]

\* Lines 863-878: what _set_dof_torque_2 hands to fc.compute_dof_torque_2.
SetDofTorque2Inputs(t) ==
    [ fingertip_midpoint_pos |-> fingertip_midpoint_pos_2,
      fingertip_midpoint_quat |-> fingertip_midpoint_quat_2,
      ctrl_target_gripper_dof_pos |-> t.ctrl_target_gripper_dof_pos_2,
      ctrl_target_fingertip_midpoint_pos |-> t.ctrl_target_fingertip_midpoint_pos_2,
      ctrl_target_fingertip_midpoint_quat |-> t.ctrl_target_fingertip_midpoint_quat_2,
      ctrl_target_fingertip_contact_wrench |-> t.ctrl_target_fingertip_contact_wrench_2 ]

GenerateCtrlSignalsTargetsReset(t) == AcquiredCtrlTarget

\* Lines 739-882 assign the transformed Jacobians, dof_torque, dof_torque_2,
\* ctrl_target_dof_pos and the id list; the pose, gripper and wrench
\* targets are only read.
GenerateCtrlSignalsTargets(t) == t

GenerateCtrlSignalsCfgCtrlCleared(c) == EmptyCfgCtrl

\* Lines 747, 753, 766, 768 and the cfg_ctrl arguments of the setters: the
\* config is read and passed on, never assigned.
GenerateCtrlSignalsCfgCtrl(c) == c

\* Outputs of the control laws that a call may see.  Called from the task,
\* the laws' inputs are part of the state and one output stands for all.
TorqueSeedsAt(l) == IF l = "base" THEN TorqueSeeds ELSE { 0 }

\* generate_ctrl_signals (lines 739-777), with _set_dof_pos_target,
\* _set_dof_torque, _set_dof_torque_2 and _wrap_tensor.
generate_ctrl_signals ==
    /\ pc = "running"
    /\ loc \in { "base", "gen" }
    /\ loc = "base" => num_calls < MaxTicks
    /\ num_calls' = num_calls + 1
    /\ loc' = IF loc = "gen" THEN "simulate" ELSE loc
    /\ last_op' = "generate_ctrl_signals"
    /\ ctrl_target' = GenerateCtrlSignalsTargets(ctrl_target)
    /\ torque_inputs' =
          IF JacobianRaises \/ cfg_ctrl.motor_ctrl_mode # Some("manual")
          THEN torque_inputs
          ELSE [ a \in Arms |->
                   IF a = 1 THEN Some(SetDofTorqueInputs(ctrl_target))
                   ELSE IF JacobianTf2AfterSelect = None THEN torque_inputs[a]
                   ELSE Some(SetDofTorque2Inputs(ctrl_target)) ]
    /\ \E s1 \in TorqueSeedsAt(loc), s2 \in TorqueSeedsAt(loc) :
        IF JacobianRaises
        THEN /\ pc' = "raised"
             /\ writes' = << >>
             /\ UNCHANGED << fingertip_midpoint_jacobian_tf,
                             fingertip_midpoint_jacobian_tf_2, dof_torque,
                             dof_torque_2, ctrl_target_dof_pos,
                             franka_actor_ids_sim_concat, concat_builds,
                             arm_torque >>
        ELSE
          /\ fingertip_midpoint_jacobian_tf' = Some(num_calls + 1)
          /\ fingertip_midpoint_jacobian_tf_2' = JacobianTf2AfterSelect
          /\ IF cfg_ctrl.motor_ctrl_mode = Some("gym")
             THEN \* _set_dof_pos_target: first arm's target, first arm's ids
                  /\ ctrl_target_dof_pos' = compute_dof_pos_target(s1)
                  /\ writes' = << Write("set_dof_position_target_tensor_indexed",
                                        ctrl_target_dof_pos', franka_actor_ids_sim) >>
                  /\ pc' = pc
                  /\ UNCHANGED << dof_torque, dof_torque_2,
                                  franka_actor_ids_sim_concat, concat_builds,
                                  arm_torque >>
             ELSE IF cfg_ctrl.motor_ctrl_mode = Some("manual")
             THEN /\ arm_torque' = Some(compute_dof_torque(s1))
                  /\ IF fingertip_midpoint_jacobian_tf_2' = None
                     THEN \* _set_dof_torque_2 reads an unassigned attribute
                          /\ pc' = "raised"
                          /\ dof_torque' = compute_dof_torque(s1)
                          /\ writes' = << >>
                          /\ UNCHANGED << dof_torque_2, ctrl_target_dof_pos,
                                          franka_actor_ids_sim_concat,
                                          concat_builds >>
                     ELSE /\ dof_torque_2' = Some(compute_dof_torque_2(s2))
                          /\ dof_torque' = CombineTorque(compute_dof_torque(s1),
                                                         compute_dof_torque_2(s2))
                          \* _wrap_tensor
                          /\ franka_actor_ids_sim_concat' = Some(ConcatActorIds)
                          /\ concat_builds' = concat_builds + 1
                          /\ writes' = << Write("set_dof_actuation_force_tensor_indexed",
                                                dof_torque',
                                                Val(franka_actor_ids_sim_concat')) >>
                          /\ pc' = pc
                          /\ UNCHANGED ctrl_target_dof_pos
             ELSE \* motor_ctrl_mode is None: neither branch runs
                  /\ writes' = << >>
                  /\ pc' = pc
                  /\ UNCHANGED << dof_torque, dof_torque_2, ctrl_target_dof_pos,
                                  franka_actor_ids_sim_concat, concat_builds,
                                  arm_torque >>
    /\ commands_since_simulate' = commands_since_simulate + Len(writes')
    /\ cfg_ctrl' = GenerateCtrlSignalsCfgCtrl(cfg_ctrl)
    /\ UNCHANGED << cfg_task, has_fingertip_quat, dof_props >>
    /\ UNCHANGED << task_yaml_params, loopVars, kinVars, resetVars, rew_buf >>

\* ------------------------------------------------------ the task's loop
Scaled(x, scale, do_scale) == IF do_scale THEN DiagScale(x, scale) ELSE x

pos_actions_of_second_arm(act) == Slice(act, 12, 15)

\* Lines 360-377 and 404-414: the slices of the 24 action columns.
pos_actions(act) == Slice(act, 0, 3)
second_pos_actions(act) == Slice(act, 12, 15)
rot_actions(act) == Slice(act, 3, 6)
second_rot_actions(act) == Slice(act, 15, 18)
force_actions(act) == Slice(act, 6, 9)
second_force_actions(act) == Slice(act, 18, 21)
torque_actions(act) == Slice(act, 9, 12)
second_torque_actions(act) == Slice(act, 21, 24)

\* Lines 380-387 (and 390-397): axis-angle action to quaternion, with the
\* clamp to the identity when clamp_rot is set.
rot_actions_quat(rot) ==
    [e \in Envs |->
        LET angle == Norm(rot[e])
            axis == [i \in 1 .. 3 |-> FDiv(rot[e][i], angle)]
            q == QuatFromAngleAxisRow(angle, axis)
        IN  IF task_yaml_params.clamp_rot
            THEN IF FGt(angle, task_yaml_params.clamp_rot_thresh) THEN q ELSE IdentityQuat
            ELSE q]

\* A scalar gripper target, as the torque law broadcasts it.
GripperTarget(g) == Repeat(Const(NumGripperDofs, g))

\* _apply_actions_as_ctrl_targets, lines 356-426: the targets it leaves.
ApplyActionsAsCtrlTargets(act, gripper, do_scale) ==
    LET P == task_yaml_params
        force == Truthy(cfg_ctrl.do_force_ctrl)
    IN  [ ctrl_target EXCEPT
            !.ctrl_target_fingertip_midpoint_pos =
                VecAdd(fingertip_midpoint_pos,
                       Scaled(pos_actions(act), P.pos_action_scale, do_scale)),
            !.second_ctrl_target_fingertip_midpoint_pos =
                Some(VecAdd(second_fingertip_midpoint_pos,
                            Scaled(second_pos_actions(act), P.pos_action_scale, do_scale))),
            !.ctrl_target_fingertip_midpoint_quat =
                quat_mul(rot_actions_quat(Scaled(rot_actions(act), P.rot_action_scale, do_scale)),
                         fingertip_midpoint_quat),
            !.second_ctrl_target_fingertip_midpoint_quat =
                Some(quat_mul(rot_actions_quat(Scaled(second_rot_actions(act),
                                                      P.rot_action_scale, do_scale)),
                              second_fingertip_midpoint_quat)),
            !.ctrl_target_fingertip_contact_wrench =
                IF force
                THEN CatRows(Scaled(force_actions(act), P.force_action_scale, do_scale),
                             Scaled(torque_actions(act), P.torque_action_scale, do_scale))
                ELSE @,
            !.second_ctrl_target_fingertip_contact_wrench =
                IF force
                THEN Some(CatRows(Scaled(second_force_actions(act), P.force_action_scale, do_scale),
                                  Scaled(second_torque_actions(act), P.torque_action_scale, do_scale)))
                ELSE @,
            !.ctrl_target_gripper_dof_pos = GripperTarget(gripper),
            !.second_ctrl_target_gripper_dof_pos = Some(GripperTarget(gripper)) ]

\* One arm's half of an action row: position, rotation about z, force.
ArmRow(p, r, w) == << p, 0, 0, 0, 0, r, w, 0, 0, 0, 0, 0 >>

\* Policy actions of a step, the same row in every environment.
PolicyAction(m1, m2) == Repeat(ArmRow(m1, m1, m1) \o ArmRow(m2, m2, m2))

PolicyActions == { PolicyAction(m1, m2) : m1 \in 0 .. 1, m2 \in 0 .. 1 }

\* Everything of the base class's state but ctrl_target_dof_pos and pc.
baseVarsButDofPosTargetAndPc ==
    << cfg_task, has_fingertip_quat, cfg_ctrl, dof_props,
       fingertip_midpoint_jacobian_tf, fingertip_midpoint_jacobian_tf_2,
       dof_torque, dof_torque_2, franka_actor_ids_sim_concat, writes,
       num_calls, concat_builds, arm_torque >>

\* Environments whose reset flag is set (line 163).
ResetEnvIds == { e \in Envs : reset_buf[e] # 0 }

\* Lines 276-284: initial joint positions of both arms, fingers open.
InitialDofPos ==
    LET w == task_yaml_params.franka_gripper_width_max
    IN  Const(NumArmDofs, 0) \o << w, w >> \o Const(NumArmDofs, 0) \o << w, w >>

\* Lines 502-551: the randomized target pose above the table; n is the
\* noise drawn for it.
RandomizedTargetPos(n) == Repeat(<< 0, 0, 6 + n >>)
RandomizedTargetQuat(n) == Repeat(IF n = 0 THEN << 1, 0, 0, 0 >> ELSE << 0, 1, 0, 0 >>)

\* Lines 276-284: the value assigned to dof_pos[env_ids] has num_envs rows,
\* as .repeat((num_envs, 1)) makes it.  The indexed assignment takes it when
\* it has as many rows as env_ids has entries, or one row; otherwise it
\* raises RuntimeError (shape mismatch).
ResetFrankaRaises(ids) == NumEnvs \notin { 1, Cardinality(ids) }

\* env_ids as the ascending index tensor that nonzero() returns.
EnvIdsSeq(ids) ==
    CHOOSE q \in [1 .. Cardinality(ids) -> ids] :
        \A i, j \in 1 .. Cardinality(ids) : i < j => q[i] < q[j]

\* actor_ids[env_ids].flatten()
ActorIdsOf(actor_ids, ids) ==
    [i \in 1 .. Cardinality(ids) |-> actor_ids[EnvIdsSeq(ids)[i] + 1]]

\* The env class's name for the second arm's global actor indices.
second_franka_actor_ids_sim == franka_actor_ids_sim_2

ResetActorIdsFirstArmOnly(ids) == ActorIdsOf(franka_actor_ids_sim, ids)

\* Lines 288-290 and 600-602: the first arm's ids of env_ids, then the
\* second arm's.
ResetActorIds(ids) ==
    Cat0(ActorIdsOf(franka_actor_ids_sim, ids),
         ActorIdsOf(second_franka_actor_ids_sim, ids))

\* Lines 335-337: the nuts of env_ids, then the bolts.
ObjectActorIds(ids) ==
    Cat0([i \in 1 .. Cardinality(ids) |-> << "nut", EnvIdsSeq(ids)[i] >>],
         [i \in 1 .. Cardinality(ids) |-> << "bolt", EnvIdsSeq(ids)[i] >>])

\* Lines 276-285: joint positions and velocities of the reset environments.
ResetFrankaDofState(d, ids) ==
    [ pos |-> [e \in Envs |-> IF e \in ids THEN InitialDofPos ELSE d.pos[e]],
      vel |-> [e \in Envs |->
                 IF e \in ids THEN Const(2 * NumFrankaDofs, 0) ELSE d.vel[e]] ]

\* Lines 304-333, with the configured xy at the origin and no noise: the nut
\* at table_height - bolt_head_heights, the bolt at table_height.
ResetObjectRootState(r, ids) ==
    [ nut_pos |-> [e \in Envs |->
                     IF e \in ids THEN << 0, 0, table_height - bolt_head_heights >>
                     ELSE r.nut_pos[e]],
      bolt_pos |-> [e \in Envs |->
                      IF e \in ids THEN << 0, 0, table_height >> ELSE r.bolt_pos[e]] ]

ResetBuffersFirstEnvOnly(buf, ids) ==
    [e \in Envs |-> IF e \in ids /\ e = 0 THEN 0 ELSE buf[e]]

\* Lines 346-347: buf[env_ids] = 0
ResetBuffers(buf, ids) == [e \in Envs |-> IF e \in ids THEN 0 ELSE buf[e]]

\* reset_idx(env_ids) up to the first simulate of its loop: _reset_franka,
\* _reset_object and the head of _randomize_gripper_pose (lines 502-551),
\* which sets the pose targets of every environment.
ResetIdxBegin(ids) ==
    IF ResetFrankaRaises(ids)
    THEN /\ pc' = "raised"
         /\ UNCHANGED << dof_state, ctrl_target_dof_pos, root_state, state_writes,
                         ctrl_target, iter, loc >>
    ELSE /\ pc' = pc
         /\ dof_state' = ResetFrankaDofState(dof_state, ids)
         /\ ctrl_target_dof_pos' =
               [e \in Envs |-> IF e \in ids THEN dof_state'.pos[e]
                               ELSE ctrl_target_dof_pos[e]]
         /\ root_state' = ResetObjectRootState(root_state, ids)
         /\ state_writes' =
               << Write("set_dof_state_tensor_indexed", dof_state', ResetActorIds(ids)),
                  Write("set_actor_root_state_tensor_indexed", root_state',
                        ObjectActorIds(ids)) >>
         /\ \E n1 \in 0 .. 1, n2 \in 0 .. 1 :
               ctrl_target' =
                 [ ctrl_target EXCEPT
                     !.ctrl_target_fingertip_midpoint_pos = RandomizedTargetPos(n1),
                     !.second_ctrl_target_fingertip_midpoint_pos = Some(RandomizedTargetPos(n2)),
                     !.ctrl_target_fingertip_midpoint_quat = RandomizedTargetQuat(n1),
                     !.second_ctrl_target_fingertip_midpoint_quat = Some(RandomizedTargetQuat(n2)) ]
         /\ iter' = task_yaml_params.num_gripper_move_sim_steps
         /\ loc' = "randomize_refresh"

\* The end of reset_idx(env_ids) after the loop: lines 597-606 and
\* _reset_buffers.
ResetIdxEnd(ids) ==
    /\ dof_state' =
          [ dof_state EXCEPT
              !.vel = [e \in Envs |->
                         IF e \in ids THEN Const(2 * NumFrankaDofs, 0) ELSE @[e]] ]
    /\ state_writes' =
          Append(state_writes,
                 Write("set_dof_state_tensor_indexed", dof_state', ResetActorIds(ids)))
    /\ reset_buf' = ResetBuffers(reset_buf, ids)
    /\ progress_buf' = ResetBuffers(progress_buf, ids)

\* A call of reset_idx(env_ids) by the task's user between two steps, up
\* to the first simulate of its loop.
reset_idx ==
    /\ pc = "running"
    /\ loc = "reset_call"
    /\ last_op' = "reset_idx"
    /\ \E ids \in SUBSET Envs :
          /\ env_ids' = ids
          /\ ResetIdxBegin(ids)
    /\ site' = "reset_idx"
    /\ UNCHANGED << baseVarsButDofPosTargetAndPc, task_yaml_params, sim_time,
                    refreshed_at, jacobian, mass_matrix, progress_buf, reset_buf,
                    actions, torque_inputs, commands_since_simulate, kinVars,
                    rew_buf >>

\* The return of that call.
reset_idx_return ==
    /\ pc = "running"
    /\ loc = "reset_return"
    /\ last_op' = "reset_idx"
    /\ ResetIdxEnd(env_ids)
    /\ loc' = "reset_done"
    /\ UNCHANGED << baseVars, task_yaml_params, site, iter, sim_time, refreshed_at,
                    jacobian, mass_matrix, actions, ctrl_target, torque_inputs,
                    commands_since_simulate, kinVars, root_state, env_ids, rew_buf >>

\* pre_physics_step up to the first simulate: with environments to reset,
\* reset_idx up to the first simulate of its loop; without, the policy's
\* actions become targets (lines 167-171).
pre_physics_step ==
    /\ pc = "running"
    /\ loc = "step"
    /\ last_op' = "pre_physics_step"
    /\ IF ResetEnvIds # { }
       THEN /\ env_ids' = ResetEnvIds
            /\ ResetIdxBegin(ResetEnvIds)
            /\ site' = "randomize"
            /\ UNCHANGED actions
       ELSE /\ \E act \in PolicyActions : actions' = Some(act)
            /\ ctrl_target' =
                  ApplyActionsAsCtrlTargets(Val(actions'),
                      task_yaml_params.franka_gripper_width_max, TRUE)
            /\ site' = "policy"
            /\ loc' = "gen"
            /\ UNCHANGED << pc, ctrl_target_dof_pos, iter, resetVars >>
    /\ UNCHANGED << baseVarsButDofPosTargetAndPc, task_yaml_params, sim_time,
                    refreshed_at, jacobian, mass_matrix, progress_buf, reset_buf,
                    torque_inputs, commands_since_simulate, kinVars, rew_buf >>

RefreshedFingertipMidpointFromHand(b) ==
    [ a \in Arms |->
        LET finger_midpoint_pos == Midpoint(b[a].left_finger_pos, b[a].right_finger_pos)
            pos == translate_along_local_z(finger_midpoint_pos, b[a].hand_quat,
                                           task_yaml_params.franka_finger_length)
        IN  [ pos |-> pos,
              linvel |-> VecAdd(b[a].hand_linvel,
                                Cross(b[a].hand_angvel, VecSub(pos, b[a].hand_pos))),
              jacobian |-> MidpointJacobian(jacobian_tensor, a) ] ]

\* Lines 536-546 and 549-558 of refresh_base_tensors: the midpoint frame
\* of each arm from the refreshed body states.
RefreshedFingertipMidpoint(b) ==
    [ a \in Arms |->
        LET finger_midpoint_pos == Midpoint(b[a].left_finger_pos, b[a].right_finger_pos)
            pos == translate_along_local_z(finger_midpoint_pos, b[a].hand_quat,
                                           task_yaml_params.franka_finger_length)
        IN  [ pos |-> pos,
              linvel |-> VecAdd(b[a].fingertip_centered_linvel,
                                Cross(b[a].fingertip_centered_angvel,
                                      VecSub(pos, b[a].fingertip_centered_pos))),
              jacobian |-> MidpointJacobian(jacobian_tensor, a) ] ]

\* Lines 524-525 as the wrapped joint states see them: an opaque physics
\* under which every joint moved by one per simulation step since the
\* tensor was last filled, at the velocity of that many steps.
RefreshedDofState(d, steps) ==
    [ pos |-> [e \in Envs |-> [i \in 1 .. 2 * NumFrankaDofs |-> d.pos[e][i] + steps]],
      vel |-> [e \in Envs |-> Const(2 * NumFrankaDofs, steps)] ]

\* refresh_base_tensors, lines 524-558.  The wrapped state tensors take the
\* simulator's current values; self.jacobian and self.mass_matrix are the
\* concatenated copies made at lines 261-273, which no gym refresh reaches.
refresh_base_tensors ==
    /\ pc = "running"
    /\ loc \in { "randomize_refresh", "post_refresh", "kin" }
    /\ last_op' = "refresh_base_tensors"
    /\ dof_state' = RefreshedDofState(dof_state, sim_time - refreshed_at)
    /\ refreshed_at' = sim_time
    /\ body_state' = sim_body_state
    /\ fingertip_midpoint' = RefreshedFingertipMidpoint(body_state')
    /\ loc' = CASE loc = "randomize_refresh" -> "randomize_actions"
                [] loc = "post_refresh" -> "post_compute"
                [] loc = "kin" -> "kin_done"
    /\ UNCHANGED << baseVars, task_yaml_params, site, iter, sim_time, jacobian,
                    mass_matrix, progress_buf, reset_buf, actions, ctrl_target,
                    torque_inputs, commands_since_simulate, sim_body_state,
                    root_state, state_writes, env_ids, rew_buf >>

\* Lines 560-592 of the loop of _randomize_gripper_pose: the pose error of
\* each arm becomes its action, applied unscaled.
randomize_gripper_pose_apply ==
    /\ pc = "running"
    /\ loc = "randomize_actions"
    /\ last_op' = "_apply_actions_as_ctrl_targets"
    /\ LET err == get_pose_error(fingertip_midpoint_pos, fingertip_midpoint_quat,
                                 ctrl_target.ctrl_target_fingertip_midpoint_pos,
                                 ctrl_target.ctrl_target_fingertip_midpoint_quat)
           second_err == get_pose_error(second_fingertip_midpoint_pos,
                                        second_fingertip_midpoint_quat,
                                        Val(ctrl_target.second_ctrl_target_fingertip_midpoint_pos),
                                        Val(ctrl_target.second_ctrl_target_fingertip_midpoint_quat))
           act == CatRows(CatRows(CatRows(err.pos_error, err.axis_angle_error),
                                  Repeat(Const(6, 0))),
                          CatRows(CatRows(second_err.pos_error, second_err.axis_angle_error),
                                  Repeat(Const(6, 0))))
       IN  ctrl_target' = ApplyActionsAsCtrlTargets(act,
                              task_yaml_params.franka_gripper_width_max, FALSE)
    /\ loc' = "gen"
    /\ UNCHANGED << baseVars, task_yaml_params, loopVars, torque_inputs,
                    commands_since_simulate, kinVars, resetVars, rew_buf >>

\* What one gym.simulate does to the bodies: an opaque physics step that
\* moves every body up by one and turns the hand and fingertip frames by a
\* half turn about z, so that consecutive states differ.
SimulatedBodyState(b) ==
    LET Up(t) == [e \in Envs |-> << t[e][1], t[e][2], t[e][3] + 1 >>]
        Turn(q) == [e \in Envs |-> QuatMulRow(<< 0, 0, 1, 0 >>, q[e])]
    IN  [ a \in Arms |->
            [ b[a] EXCEPT !.hand_pos = Up(@), !.left_finger_pos = Up(@),
                          !.right_finger_pos = Up(@), !.fingertip_centered_pos = Up(@),
                          !.hand_quat = Turn(@), !.fingertip_centered_quat = Turn(@) ] ]

\* gym.simulate: the step after pre_physics_step (line 161) and the ones of
\* the loops at lines 467-469, 480-483 and 555-595, with each loop's exit.
simulate ==
    /\ pc = "running"
    /\ loc = "simulate"
    /\ sim_time < MaxSimTime
    /\ sim_time' = sim_time + 1
    /\ sim_body_state' = SimulatedBodyState(sim_body_state)
    /\ commands_since_simulate' = 0
    /\ last_op' = "simulate"
    /\ CASE site = "policy" ->
              /\ loc' = "post"
              /\ UNCHANGED << site, iter >>
         [] site = "randomize" ->
              /\ iter' = iter - 1
              /\ loc' = IF iter' > 0 THEN "randomize_refresh" ELSE "reset_finish"
              /\ UNCHANGED site
         [] site = "reset_idx" ->
              /\ iter' = iter - 1
              /\ loc' = IF iter' > 0 THEN "randomize_refresh" ELSE "reset_return"
              /\ UNCHANGED site
         [] site = "close" ->
              IF iter > 1
              THEN /\ iter' = iter - 1
                   /\ loc' = "simulate"
                   /\ UNCHANGED site
              ELSE \* _close_gripper returns, _lift_gripper starts (line 185)
                   /\ site' = "lift"
                   /\ iter' = task_yaml_params.num_gripper_lift_sim_steps
                   /\ loc' = "lift_apply"
         [] site = "lift" ->
              /\ iter' = iter - 1
              /\ loc' = IF iter' > 0 THEN "lift_apply" ELSE "post_refresh"
              /\ UNCHANGED site
    /\ UNCHANGED << baseVars, task_yaml_params, refreshed_at, jacobian,
                    mass_matrix, progress_buf, reset_buf, actions, ctrl_target,
                    torque_inputs, body_state, fingertip_midpoint, resetVars,
                    rew_buf >>

\* The rest of pre_physics_step after the randomization loop: lines
\* 597-606, _reset_buffers, then the policy's actions become targets.
reset_idx_finish ==
    /\ pc = "running"
    /\ loc = "reset_finish"
    /\ last_op' = "_apply_actions_as_ctrl_targets"
    /\ ResetIdxEnd(env_ids)
    /\ \E act \in PolicyActions : actions' = Some(act)
    /\ ctrl_target' =
          ApplyActionsAsCtrlTargets(Val(actions'),
              task_yaml_params.franka_gripper_width_max, TRUE)
    /\ site' = "policy"
    /\ loc' = "gen"
    /\ UNCHANGED << baseVars, task_yaml_params, iter, sim_time, refreshed_at,
                    jacobian, mass_matrix, torque_inputs,
                    commands_since_simulate, kinVars, root_state, env_ids,
                    rew_buf >>

StepProgressBufFirstEnvOnly(buf) ==
    [e \in Envs |-> IF e = 0 THEN buf[e] + 1 ELSE buf[e]]

\* Line 176: progress_buf[:] += 1
StepProgressBuf(buf) == [e \in Envs |-> buf[e] + 1]

IsLastStepOfEveryStep(buf) == TRUE

\* Lines 179 and 255: is_last_step, read off environment 0.
IsLastStepOf(buf) == buf[0] = task_yaml_params.max_episode_length - 1

\* post_physics_step, lines 176-185: count the step; on the last step of
\* the episode _close_gripper applies a zero action with closed fingers.
post_physics_step ==
    /\ pc = "running"
    /\ loc = "post"
    /\ last_op' = "post_physics_step"
    /\ progress_buf' = StepProgressBuf(progress_buf)
    /\ IF /\ task_yaml_params.close_and_lift
          /\ IsLastStepOf(progress_buf')
       THEN /\ ctrl_target' =
                  ApplyActionsAsCtrlTargets(
                      Repeat(Const(task_yaml_params.numActions, 0)), 0, FALSE)
            /\ site' = "close"
            /\ iter' = task_yaml_params.num_gripper_close_sim_steps
            /\ loc' = "gen"
       ELSE /\ loc' = "post_refresh"
            /\ UNCHANGED << ctrl_target, site, iter >>
    /\ UNCHANGED << baseVars, task_yaml_params, sim_time, refreshed_at,
                    jacobian, mass_matrix, reset_buf, actions, torque_inputs,
                    commands_since_simulate, kinVars, resetVars, rew_buf >>

\* Lines 474-476: zero action but for the z displacement of each arm.
LiftDeltaHandPose ==
    Repeat([i \in 1 .. task_yaml_params.numActions |->
              IF i = 3 \/ i = 15 THEN lift_distance ELSE 0])

\* One iteration of the loop of _lift_gripper, line 481.
lift_gripper ==
    /\ pc = "running"
    /\ loc = "lift_apply"
    /\ last_op' = "_apply_actions_as_ctrl_targets"
    /\ ctrl_target' = ApplyActionsAsCtrlTargets(LiftDeltaHandPose, 0, FALSE)
    /\ loc' = "gen"
    /\ UNCHANGED << baseVars, task_yaml_params, loopVars, torque_inputs,
                    commands_since_simulate, kinVars, resetVars, rew_buf >>

UpdateResetBufPastLastStep(rb, pb) ==
    [e \in Envs |->
        IF pb[e] >= task_yaml_params.max_episode_length THEN 1 ELSE rb[e]]

\* _update_reset_buf, lines 225-227.
UpdateResetBuf(rb, pb) ==
    [e \in Envs |->
        IF pb[e] >= task_yaml_params.max_episode_length - 1 THEN 1 ELSE rb[e]]

\* The views of the object root states, base class lines 313-316.
nut_pos == root_state.nut_pos
bolt_pos == root_state.bolt_pos

check_lift_success_nut_only(multiple) ==
    [e \in Envs |->
        IF nut_pos[e][3] > table_height + nut_heights * multiple THEN 1 ELSE 0]

\* _check_lift_success, lines 485-496: 1 where the nut and the bolt are both
\* above the table by more than the multiple of their heights.
check_lift_success(multiple) ==
    [e \in Envs |->
        IF /\ nut_pos[e][3] > table_height + nut_heights * multiple
           /\ bolt_pos[e][3] > table_height + bolt_head_heights * multiple
        THEN 1 ELSE 0]

\* Lines 235-252: the keypoint and action terms of the reward, opaque here
\* and different in each environment.
KeypointAndActionReward == [e \in Envs |-> 0 - (e + 1)]

\* _update_rew_buf, lines 229-261.
UpdateRewBuf ==
    IF IsLastStepOf(progress_buf)
    THEN [e \in Envs |->
            KeypointAndActionReward[e]
                + check_lift_success(height_multiple)[e] * success_bonus]
    ELSE KeypointAndActionReward

\* The end of post_physics_step after the refresh: observations, then
\* compute_reward (lines 215-219).
compute_reward ==
    /\ pc = "running"
    /\ loc = "post_compute"
    /\ last_op' = "compute_reward"
    /\ reset_buf' = UpdateResetBuf(reset_buf, progress_buf)
    /\ rew_buf' = UpdateRewBuf
    /\ loc' = "step"
    /\ UNCHANGED << baseVars, task_yaml_params, site, iter, sim_time,
                    refreshed_at, jacobian, mass_matrix, progress_buf, actions,
                    ctrl_target, torque_inputs, commands_since_simulate, kinVars,
                    resetVars >>

Next ==
    \/ parse_controller_spec
    \/ generate_ctrl_signals

Spec == Init /\ [][Next]_vars

\* ---------------------------------------------------- the task's run
\* Control modes of the runs of the task that are explored.
TaskModes ==
    { "gym_default", "joint_space_id", "hybrid_force_motion" }

TaskCfgTasks ==
    { CfgTask(mode, jac, 1, NumAxes, 0) : mode \in TaskModes, jac \in JacobianTypes }

\* The task after acquire_base_tensors and _get_task_yaml_params.
TaskInit ==
    /\ cfg_task \in TaskCfgTasks
    /\ AcquiredBaseState
    /\ \E clamp_rot \in BOOLEAN, close_and_lift \in BOOLEAN, scale \in 1 .. MaxScale :
          task_yaml_params = TaskYamlParams(clamp_rot, close_and_lift, scale)
    /\ dof_props = SpawnedDofProps(0)
    /\ loc = "step"
    /\ sim_body_state = SpawnedBodyState
    /\ AcquiredTaskState

TaskNext ==
    \/ parse_controller_spec
    \/ pre_physics_step
    \/ refresh_base_tensors
    \/ randomize_gripper_pose_apply
    \/ generate_ctrl_signals
    \/ simulate
    \/ reset_idx_finish
    \/ post_physics_step
    \/ lift_gripper
    \/ compute_reward

TaskSpec == TaskInit /\ [][TaskNext]_vars

\* ------------------------------------------------ calls of reset_idx
\* The task between two steps of a run: the controller parsed, the joints
\* and the objects where the last episode left them, every environment at
\* a step of its episode and flagged for reset or not.
ResetInit ==
    /\ cfg_task \in TaskCfgTasks
    /\ AcquiredBaseState
    /\ task_yaml_params = TaskYamlParams(TRUE, FALSE, 1)
    /\ dof_props = SpawnedDofProps(0)
    /\ loc = "reset_call"
    /\ sim_body_state = SpawnedBodyState
    /\ dof_state = SpawnedDofState
    /\ root_state = SpawnedRootState
    /\ state_writes = << >>
    /\ env_ids = { }
    /\ rew_buf = Repeat(0)
    /\ site = "none"
    /\ iter = 0
    /\ sim_time = 0
    /\ refreshed_at = 0
    /\ jacobian = 0
    /\ mass_matrix = 0
    /\ last_op = "acquire_base_tensors"
    /\ progress_buf \in [Envs -> 0 .. (MaxEpisodeLength - 1)]
    /\ reset_buf \in [Envs -> 0 .. 1]
    /\ actions = None
    /\ ctrl_target = AcquiredCtrlTarget
    /\ torque_inputs = [a \in Arms |-> None]
    /\ commands_since_simulate = 0
    /\ body_state = sim_body_state
    /\ fingertip_midpoint = AcquiredFingertipMidpoint(body_state)

ResetNext ==
    \/ parse_controller_spec
    \/ reset_idx
    \/ refresh_base_tensors
    \/ randomize_gripper_pose_apply
    \/ generate_ctrl_signals
    \/ simulate
    \/ reset_idx_return

ResetSpec == ResetInit /\ [][ResetNext]_vars

\* ------------------------------------------------ the reward of a step
\* Heights an object may have at the end of a step: on the table, exactly
\* at three times its height above it, and above that.
ObjectHeights ==
    { table_height, table_height + height_multiple * nut_heights,
      table_height + height_multiple * nut_heights + 1 }

\* post_physics_step about to compute the reward: the environments at a
\* common step of the episode, the nut and the bolt of each at any of the
\* heights.
RewardInit ==
    /\ cfg_task \in TaskCfgTasks
    /\ AcquiredBaseState
    /\ task_yaml_params = TaskYamlParams(TRUE, TRUE, 1)
    /\ dof_props = SpawnedDofProps(0)
    /\ loc = "post_compute"
    /\ sim_body_state = SpawnedBodyState
    /\ dof_state = SpawnedDofState
    /\ \E nz \in [Envs -> ObjectHeights], bz \in [Envs -> ObjectHeights] :
          root_state = [ nut_pos |-> [e \in Envs |-> << 0, 0, nz[e] >>],
                         bolt_pos |-> [e \in Envs |-> << 0, 0, bz[e] >>] ]
    /\ state_writes = << >>
    /\ env_ids = { }
    /\ rew_buf = Repeat(0)
    /\ site = "none"
    /\ iter = 0
    /\ sim_time = 0
    /\ refreshed_at = 0
    /\ jacobian = 0
    /\ mass_matrix = 0
    /\ last_op = "acquire_base_tensors"
    /\ \E p \in 1 .. (MaxEpisodeLength - 1) : progress_buf = Repeat(p)
    /\ reset_buf = Repeat(0)
    /\ actions = None
    /\ ctrl_target = AcquiredCtrlTarget
    /\ torque_inputs = [a \in Arms |-> None]
    /\ commands_since_simulate = 0
    /\ body_state = sim_body_state
    /\ fingertip_midpoint = AcquiredFingertipMidpoint(body_state)

RewardNext ==
    \/ parse_controller_spec
    \/ compute_reward

RewardSpec == RewardInit /\ [][RewardNext]_vars

\* ------------------------------------------- the refresh on moving bodies
Vec3Zero == << 0, 0, 0 >>

\* States the bodies may be in after a simulator step, both arms moving
\* alike: the hand level or turned over, the hand and the fingertip-centered
\* body each at rest or moving, the latter on or off the fingers' axis.
KinBodyStates ==
    { [ a \in Arms |->
          ArmBodyState(<< a, 0, 4 >>, hq, hv, hw, << 0, 1, 0 >>, << a, dy, 5 >>,
                       IdentityQuat, cv, cw) ] :
        hq \in { IdentityQuat, << 1, 0, 0, 0 >> },
        hv \in { Vec3Zero, << 0, 1, 0 >> },
        hw \in { Vec3Zero, << 0, 1, 0 >> },
        dy \in 0 .. 1,
        cv \in { Vec3Zero, << 1, 0, 0 >> },
        cw \in { Vec3Zero, << 0, 0, 1 >>, << 1, 0, 0 >> } }

\* The task constructed and one simulator step done, its outcome open; the
\* views still hold the state of acquire time.
KinInit ==
    /\ cfg_task = CfgTask("joint_space_id", "geometric", 1, NumAxes, 0)
    /\ has_fingertip_quat = FALSE
    /\ pc = "running"
    /\ cfg_ctrl = CfgPreset(cfg_task)
    /\ dof_props = SetDofProps(cfg_ctrl, SpawnedDofProps(0))
    /\ fingertip_midpoint_jacobian_tf = None
    /\ fingertip_midpoint_jacobian_tf_2 = None
    /\ dof_torque = Repeat(Const(2 * NumFrankaDofs, 0))
    /\ dof_torque_2 = None
    /\ ctrl_target_dof_pos = Repeat(Const(2 * NumFrankaDofs, 0))
    /\ franka_actor_ids_sim_concat = None
    /\ writes = << >>
    /\ num_calls = 0
    /\ concat_builds = 0
    /\ arm_torque = None
    /\ task_yaml_params = TaskYamlParams(TRUE, FALSE, 1)
    /\ loc = "kin"
    /\ site = "none"
    /\ iter = 0
    /\ sim_time = 1
    /\ refreshed_at = 0
    /\ jacobian = 0
    /\ mass_matrix = 0
    /\ last_op = "simulate"
    /\ progress_buf = AllocatedProgressBuf
    /\ reset_buf = AllocatedResetBuf
    /\ actions = None
    /\ ctrl_target = AcquiredCtrlTarget
    /\ torque_inputs = [a \in Arms |-> None]
    /\ commands_since_simulate = 0
    /\ sim_body_state \in KinBodyStates
    /\ body_state = SpawnedBodyState
    /\ fingertip_midpoint = AcquiredFingertipMidpoint(body_state)
    /\ dof_state = SpawnedDofState
    /\ root_state = SpawnedRootState
    /\ state_writes = << >>
    /\ env_ids = { }
    /\ rew_buf = Repeat(0)

KinNext == refresh_base_tensors

KinSpec == KinInit /\ [][KinNext]_vars

\* ================================================================ claims
Parsed == pc # "constructed"
Mode == cfg_task.ctrl_type
Backend == cfg_ctrl.motor_ctrl_mode
Zeros == Const(NumFrankaDofs, 0)

\* C1: for each of the eight recognized mode names, parse_controller_spec
\* sets the backend to 'gym' exactly for gym_default and to 'manual' for the
\* other seven, and the gain space to 'joint' for gym_default,
\* joint_space_ik and joint_space_id and to 'task' for the other five.
C1_BackendAndGainSpace ==
    (Parsed /\ Mode \in RecognizedModes) =>
        /\ Backend = (IF Mode = "gym_default" THEN Some("gym") ELSE Some("manual"))
        /\ cfg_ctrl.gain_space =
             (IF Mode \in { "gym_default", "joint_space_ik", "joint_space_id" }
              THEN Some("joint") ELSE Some("task"))

C1_Witness ==
    /\ Parsed
    /\ Mode = "joint_space_ik"
    /\ Backend = Some("manual")
    /\ cfg_ctrl.gain_space = Some("joint")

\* C2: the inertial-compensation flag is False for joint_space_ik and
\* task_space_impedance, True for joint_space_id, operational_space_motion
\* and hybrid_force_motion, and unset (None, not False) for gym_default,
\* open_loop_force and closed_loop_force.
C2_InertialCompFlag ==
    (Parsed /\ Mode \in RecognizedModes) =>
        cfg_ctrl.do_inertial_comp =
            (CASE Mode \in { "joint_space_ik", "task_space_impedance" } -> Some(FALSE)
               [] Mode \in { "joint_space_id", "operational_space_motion",
                             "hybrid_force_motion" } -> Some(TRUE)
               [] OTHER -> None)

C2_Witness ==
    /\ Parsed
    /\ Mode = "open_loop_force"
    /\ cfg_ctrl.do_inertial_comp = None

\* C3: force control is active exactly for open_loop_force,
\* closed_loop_force and hybrid_force_motion, with method 'open' for the
\* first and 'closed' for the other two; in the other five modes the flag
\* is False or unset (falsy for the task layer's test) and the method unset.
C3_ForceControl ==
    (Parsed /\ Mode \in RecognizedModes) =>
        /\ Truthy(cfg_ctrl.do_force_ctrl) <=>
             Mode \in { "open_loop_force", "closed_loop_force", "hybrid_force_motion" }
        /\ cfg_ctrl.do_force_ctrl \in { None, Some(FALSE), Some(TRUE) }
        /\ cfg_ctrl.force_ctrl_method =
             (CASE Mode = "open_loop_force" -> Some("open")
                [] Mode \in { "closed_loop_force", "hybrid_force_motion" } -> Some("closed")
                [] OTHER -> None)

C3_Witness ==
    /\ Parsed
    /\ Mode = "hybrid_force_motion"
    /\ Truthy(cfg_ctrl.do_force_ctrl)
    /\ cfg_ctrl.force_ctrl_method = Some("closed")

\* C4: with a mode name that is not one of the eight, parse_controller_spec
\* fails: it does not return normally with the backend unset, and no
\* control tick runs with that config.
C4_UnrecognizedModeFails ==
    (Mode \notin RecognizedModes) =>
        /\ ~(pc = "running" /\ Backend = None)
        /\ num_calls = 0

\* C5: when the backend is manual, after parse_controller_spec every joint
\* of both arm actors in every environment is in effort drive mode with
\* passive stiffness 0 and damping 0.
C5_ManualDriveBothArms ==
    (Parsed /\ Backend = Some("manual")) =>
        \A e \in Envs : \A a \in Arms :
            dof_props[e][a] = DofProps("DOF_MODE_EFFORT", Zeros, Zeros)

C5_Witness ==
    /\ Parsed
    /\ Backend = Some("manual")
    /\ \A e \in Envs : dof_props[e][2].driveMode = Const(NumFrankaDofs, "DOF_MODE_EFFORT")

\* The PD gains the gym backend is configured with, per environment.
ConfiguredPropGains == CatRows(Val(cfg_ctrl.joint_prop_gains), Val(cfg_ctrl.gripper_prop_gains))
ConfiguredDerivGains == CatRows(Val(cfg_ctrl.joint_deriv_gains), Val(cfg_ctrl.gripper_deriv_gains))

\* C6: when the backend is native PD, after parse_controller_spec every arm
\* instance of every environment, the second as well as the first, is in
\* position drive mode with stiffness and damping equal to the configured
\* joint and gripper proportional and derivative gains.
C6_GymDriveEveryArm ==
    (Parsed /\ Backend = Some("gym")) =>
        \A e \in Envs : \A a \in Arms :
            dof_props[e][a] =
                DofProps("DOF_MODE_POS", ConfiguredPropGains[e], ConfiguredDerivGains[e])

\* C7: for every recognized mode and accepted gain bundle, the motion-axis
\* mask and the force-axis mask of the config are never both 1 on an axis.
C7_MasksComplementary ==
    (Parsed /\ Mode \in RecognizedModes
            /\ cfg_ctrl.motion_ctrl_axes # None /\ cfg_ctrl.force_ctrl_axes # None) =>
        \A e \in Envs : \A i \in 1 .. NumAxes :
            ~(Val(cfg_ctrl.motion_ctrl_axes)[e][i] = 1 /\ Val(cfg_ctrl.force_ctrl_axes)[e][i] = 1)

\* C8: in the manual backend, after every call of generate_ctrl_signals the
\* combined command vector is the first arm's torque vector followed by the
\* second arm's: its length is 9 + 9 = 18 after the first call and after
\* every later one, and it is the vector handed to the indexed write.
C8_CombinedTorqueOrder ==
    (pc = "running" /\ Backend = Some("manual") /\ num_calls > 0) =>
        /\ \A e \in Envs :
            /\ Len(dof_torque[e]) = 2 * NumFrankaDofs
            /\ \A i \in 1 .. NumFrankaDofs :
                /\ dof_torque[e][i] = Val(arm_torque)[e][i]
                /\ dof_torque[e][NumFrankaDofs + i] = Val(dof_torque_2)[e][i]
        /\ \A k \in 1 .. Len(writes) : writes[k].data = dof_torque

C8_Witness ==
    /\ pc = "running"
    /\ Backend = Some("manual")
    /\ num_calls = MaxTicks
    /\ Len(writes) = 1
    /\ Val(arm_torque) # Val(dof_torque_2)

\* C9: every call of generate_ctrl_signals issues exactly one indexed write
\* whose actor-index list is the first arm's ids followed by the second
\* arm's, 2 * num_envs pairwise different ids, in the manual backend and in
\* the native-PD backend.
C9_OneWriteCoversBothArms ==
    (pc = "running" /\ num_calls > 0 /\ Backend \in { Some("manual"), Some("gym") }) =>
        /\ Len(writes) = 1
        /\ writes[1].ids = franka_actor_ids_sim \o franka_actor_ids_sim_2
        /\ Len(writes[1].ids) = 2 * NumEnvs
        /\ \A i, j \in 1 .. Len(writes[1].ids) :
              i # j => writes[1].ids[i] # writes[1].ids[j]

\* C10: the combined actor-index list is built once for the run and reused:
\* over any sequence of control ticks it is built at most once.
C10_IdListBuiltOnce ==
    concat_builds <= 1

\* Keys the claim expects each mode's preset to assign, beside the four
\* keys common to all modes.
C18_CommonKeys ==
    { "num_envs", "jacobian_type", "gripper_prop_gains", "gripper_deriv_gains" }

C18_JointKeys ==
    { "motor_ctrl_mode", "gain_space", "ik_method", "joint_prop_gains", "joint_deriv_gains" }

C18_MotionKeys ==
    { "motor_ctrl_mode", "gain_space", "do_motion_ctrl", "task_prop_gains",
      "task_deriv_gains", "do_inertial_comp", "motion_ctrl_axes", "do_force_ctrl" }

C18_ForceKeys ==
    { "motor_ctrl_mode", "gain_space", "do_motion_ctrl", "do_force_ctrl",
      "force_ctrl_method", "force_ctrl_axes" }

C18_ModeKeys ==
    CASE Mode = "gym_default" -> C18_JointKeys
      [] Mode \in { "joint_space_ik", "joint_space_id" } ->
            C18_JointKeys \cup { "do_inertial_comp" }
      [] Mode \in { "task_space_impedance", "operational_space_motion" } -> C18_MotionKeys
      [] Mode = "open_loop_force" -> C18_ForceKeys
      [] Mode = "closed_loop_force" -> C18_ForceKeys \cup { "wrench_prop_gains" }
      [] Mode = "hybrid_force_motion" ->
            C18_MotionKeys \cup C18_ForceKeys \cup { "wrench_prop_gains" }
      [] OTHER -> { }

\* C18: for every recognized mode the config has exactly the fixed 18 keys;
\* a key the mode's preset does not assign is None (never zero or False);
\* num_envs, jacobian_type and the gripper gains are set in every mode.
C18_UnassignedKeysAreNone ==
    (Parsed /\ Mode \in RecognizedModes) =>
        /\ DOMAIN cfg_ctrl = cfg_ctrl_keys
        /\ Cardinality(DOMAIN cfg_ctrl) = 18
        /\ \A k \in cfg_ctrl_keys \ (C18_CommonKeys \cup C18_ModeKeys) : cfg_ctrl[k] = None
        /\ \A k \in C18_CommonKeys \cup C18_ModeKeys : cfg_ctrl[k] # None

C18_Witness ==
    /\ Parsed
    /\ Mode = "closed_loop_force"
    /\ cfg_ctrl.task_prop_gains = None
    /\ cfg_ctrl.do_inertial_comp = None
    /\ cfg_ctrl.wrench_prop_gains # None

\* C11: every generate_ctrl_signals that follows a simulator step runs on
\* views refreshed after that step: when the call returns, the state the
\* views hold is the simulator's current one.
C11_RefreshBeforeEveryGenerate ==
    (last_op = "generate_ctrl_signals" /\ sim_time > 0) => refreshed_at = sim_time

\* C12: in every loop that steps the simulator, a command has been written
\* since the previous simulate whenever simulate is called.
C12_CommandBeforeEverySimulate ==
    [][sim_time' # sim_time => commands_since_simulate > 0]_vars

\* C13: after every refresh_base_tensors the values behind arm_mass_matrix,
\* arm_mass_matrix_2 and the Jacobian views of both arms are the simulator's
\* current ones, not those of the time the tensors were acquired.
C13_MatricesCurrentAfterRefresh ==
    last_op = "refresh_base_tensors" =>
        /\ jacobian = sim_time
        /\ mass_matrix = sim_time

\* C14: after _apply_actions_as_ctrl_targets, the target the second arm's
\* torque computation consumes is the one computed for the second arm
\* (its midpoint position plus actions[12:15], its orientation turned by
\* actions[15:18], the gripper target), not the value of initialization.
C14_SecondArmTorqueUsesOwnTarget ==
    (last_op = "generate_ctrl_signals" /\ torque_inputs[2] # None) =>
        LET consumed == Val(torque_inputs[2])
        IN  /\ consumed.ctrl_target_fingertip_midpoint_pos =
                  Val(ctrl_target.second_ctrl_target_fingertip_midpoint_pos)
            /\ consumed.ctrl_target_fingertip_midpoint_quat =
                  Val(ctrl_target.second_ctrl_target_fingertip_midpoint_quat)
            /\ consumed.ctrl_target_gripper_dof_pos =
                  Val(ctrl_target.second_ctrl_target_gripper_dof_pos)

\* What an action tensor leaves for one arm: its pose and wrench targets
\* and what its torque law would consume.
Arm1Outcome(t) ==
    << t.ctrl_target_fingertip_midpoint_pos, t.ctrl_target_fingertip_midpoint_quat,
       t.ctrl_target_fingertip_contact_wrench, SetDofTorqueInputs(t) >>

Arm2Outcome(t) ==
    << t.second_ctrl_target_fingertip_midpoint_pos,
       t.second_ctrl_target_fingertip_midpoint_quat,
       t.second_ctrl_target_fingertip_contact_wrench, SetDofTorque2Inputs(t) >>

\* The targets an action tensor leaves when applied in the current state.
Applied(act, do_scale) ==
    ApplyActionsAsCtrlTargets(act, task_yaml_params.franka_gripper_width_max, do_scale)

\* Where the task is about to call _apply_actions_as_ctrl_targets.
ApplyLocs == { "step", "reset_finish", "randomize_actions", "post", "lift_apply" }

\* C15: the arms are independent.  From the same state, two of the
\* policy's action tensors that differ only in columns 12..23 leave the
\* same targets and torque inputs for the first arm, and two that differ
\* only in columns 0..11 leave the same for the second arm; the targets of
\* the policy's step are those of its action.
C15_ArmsIndependent ==
    /\ (Parsed /\ loc \in ApplyLocs) =>
          \A m \in 0 .. 1, ds \in BOOLEAN :
              /\ Slice(PolicyAction(m, 0), 0, 12) = Slice(PolicyAction(m, 1), 0, 12)
              /\ Arm1Outcome(Applied(PolicyAction(m, 0), ds)) =
                    Arm1Outcome(Applied(PolicyAction(m, 1), ds))
              /\ Slice(PolicyAction(0, m), 12, 24) = Slice(PolicyAction(1, m), 12, 24)
              /\ Arm2Outcome(Applied(PolicyAction(0, m), ds)) =
                    Arm2Outcome(Applied(PolicyAction(1, m), ds))
    /\ (loc = "gen" /\ site = "policy") =>
          ctrl_target = ApplyActionsAsCtrlTargets(Val(actions),
                            task_yaml_params.franka_gripper_width_max, TRUE)

\* The policy moved the second arm only: the first arm's position target is
\* its own midpoint, the second arm's is displaced.
C15_Witness ==
    /\ loc = "gen"
    /\ site = "policy"
    /\ Slice(Val(actions), 0, 12) = Repeat(Const(12, 0))
    /\ Slice(Val(actions), 12, 24) # Repeat(Const(12, 0))
    /\ ctrl_target.ctrl_target_fingertip_midpoint_pos = fingertip_midpoint_pos
    /\ Val(ctrl_target.second_ctrl_target_fingertip_midpoint_pos) # second_fingertip_midpoint_pos

\* C16: a call of generate_ctrl_signals in the manual backend leaves every
\* target (position, orientation, gripper, wrench, of both arms) as it was.
C16_GenerateLeavesTargets ==
    [][(num_calls' # num_calls /\ Backend = Some("manual")) =>
          ctrl_target' = ctrl_target]_vars

C16_Witness ==
    /\ last_op = "generate_ctrl_signals"
    /\ Backend = Some("manual")
    /\ dof_torque_2 # None
    /\ ctrl_target.ctrl_target_fingertip_midpoint_pos # Repeat(Const(3, 0))
    /\ ctrl_target.ctrl_target_fingertip_contact_wrench # Repeat(Const(NumAxes, 0))
    /\ ctrl_target.second_ctrl_target_gripper_dof_pos # None

\* C17: once parse_controller_spec has run, no operation of the task
\* (applying actions, generating signals, stepping, refreshing, resetting)
\* changes cfg_ctrl.
C17_CfgCtrlFixedAfterParse ==
    [][Parsed => cfg_ctrl' = cfg_ctrl]_vars

C17_Witness ==
    /\ Parsed
    /\ last_op = "compute_reward"
    /\ num_calls > 1
    /\ sim_time > 1
    /\ cfg_ctrl = CfgPreset(cfg_task)

\* C19: a zero rotation action yields the identity rotation, with or
\* without clamp_rot: after the policy's action is applied, an arm whose
\* rotation columns are all zero has its current orientation as target,
\* and no NaN in it.
C19_ZeroRotationIsIdentity ==
    (loc = "gen" /\ site = "policy") =>
        /\ rot_actions(Val(actions)) = Repeat(Const(3, 0)) =>
              /\ ctrl_target.ctrl_target_fingertip_midpoint_quat = fingertip_midpoint_quat
              /\ \A e \in Envs : ~HasNaN(ctrl_target.ctrl_target_fingertip_midpoint_quat[e])
        /\ second_rot_actions(Val(actions)) = Repeat(Const(3, 0)) =>
              /\ Val(ctrl_target.second_ctrl_target_fingertip_midpoint_quat) =
                    second_fingertip_midpoint_quat
              /\ \A e \in Envs :
                    ~HasNaN(Val(ctrl_target.second_ctrl_target_fingertip_midpoint_quat)[e])

Translations ==
    { << x, y, z >> : x \in (0 - MaxShift) .. MaxShift, y \in (0 - MaxShift) .. MaxShift,
                      z \in (0 - MaxShift) .. MaxShift }

Shifted(p, t) == [e \in Envs |-> [i \in 1 .. 3 |-> p[e][i] + t[i]]]

\* The body states with every position moved by t; orientations and
\* velocities as they are.
Translated(b, t) ==
    [ a \in Arms |->
        [ b[a] EXCEPT !.hand_pos = Shifted(@, t),
                      !.left_finger_pos = Shifted(@, t),
                      !.right_finger_pos = Shifted(@, t),
                      !.fingertip_centered_pos = Shifted(@, t) ] ]

\* C21: the midpoint derivation of refresh_base_tensors commutes with
\* translation of the scene: on the refreshed body states moved by any
\* constant vector t, each arm's derived midpoint position is the derived
\* one moved by t, and its derived linear velocity and midpoint Jacobian
\* are the same.
C21_MidpointCommutesWithTranslation ==
    last_op = "refresh_base_tensors" =>
        \A t \in Translations :
            LET moved == RefreshedFingertipMidpoint(Translated(body_state, t))
            IN  \A a \in Arms :
                    /\ moved[a].pos = Shifted(fingertip_midpoint[a].pos, t)
                    /\ moved[a].linvel = fingertip_midpoint[a].linvel
                    /\ moved[a].jacobian = fingertip_midpoint[a].jacobian

\* A refresh on a turned hand with the fingertip-centered body rotating
\* off the midpoint, for which a translation moves the derived position.
C21_Witness ==
    /\ last_op = "refresh_base_tensors"
    /\ body_state[1].hand_quat[0] # IdentityQuat
    /\ fingertip_midpoint[1].linvel # body_state[1].fingertip_centered_linvel
    /\ RefreshedFingertipMidpoint(Translated(body_state, << 1, 0 - 1, 1 >>))[1].pos
          # fingertip_midpoint[1].pos

C23_BothTransformedJacobiansAssigned ==
    (last_op = "generate_ctrl_signals"
        /\ cfg_ctrl.jacobian_type \in { Some("geometric"), Some("analytic") }) =>
        /\ pc = "running"
        /\ fingertip_midpoint_jacobian_tf = Some(num_calls)
        /\ fingertip_midpoint_jacobian_tf_2 = Some(num_calls)

\* ---------------------------------------------------------------- C24
\* C24: reset_idx(env_ids) resets only the specified environments: for every
\* proper subset env_ids the call goes through, and no step of it changes
\* the joint positions, joint velocities, object root states, progress
\* counter or reset flag of an environment outside env_ids, nor advances
\* the simulation.
C24_ResetOnlySpecifiedEnvs ==
    [][(site' = "reset_idx" /\ env_ids' # Envs) =>
          /\ pc' = "running"
          /\ sim_time' = sim_time
          /\ \A e \in Envs \ env_ids' :
                /\ dof_state'.pos[e] = dof_state.pos[e]
                /\ dof_state'.vel[e] = dof_state.vel[e]
                /\ root_state'.nut_pos[e] = root_state.nut_pos[e]
                /\ root_state'.bolt_pos[e] = root_state.bolt_pos[e]
                /\ progress_buf'[e] = progress_buf[e]
                /\ reset_buf'[e] = reset_buf[e]]_vars

\* ---------------------------------------------------------------- C30
\* The joint positions _reset_franka writes: the configured initial arm
\* pose, then the maximum gripper width twice, for each arm.
C30_ExpectedDofPos ==
    LET arm == Cat0(Const(NumArmDofs, 0),
                    Const(2, task_yaml_params.franka_gripper_width_max))
    IN  Cat0(arm, arm)

\* C30: after _reset_franka(env_ids) every environment in env_ids has the
\* initial arm pose and the maximum gripper width on both arms, zero joint
\* velocities and a joint position target equal to its joint positions, and
\* one indexed joint-state write was issued on the first arm's and then the
\* second arm's actor ids of exactly the environments in env_ids.
C30_ResetFrankaPostcondition ==
    [][(loc = "reset_call" /\ last_op' = "reset_idx") =>
          /\ pc' = "running"
          /\ \A e \in env_ids' :
                /\ dof_state'.pos[e] = C30_ExpectedDofPos
                /\ dof_state'.vel[e] = Const(2 * NumFrankaDofs, 0)
                /\ ctrl_target_dof_pos'[e] = dof_state'.pos[e]
          /\ Len(state_writes') >= 1
          /\ state_writes'[1].api = "set_dof_state_tensor_indexed"
          /\ { state_writes'[1].ids[i] : i \in 1 .. Len(state_writes'[1].ids) } =
                { franka_actor_ids_sim[e + 1] : e \in env_ids' }
                    \cup { franka_actor_ids_sim_2[e + 1] : e \in env_ids' }
          /\ Len(state_writes'[1].ids) = 2 * Cardinality(env_ids')
          /\ Len(SelectSeq(state_writes',
                           LAMBDA w : w.api = "set_dof_state_tensor_indexed")) = 1]_vars

\* ---------------------------------------------------------------- C25
\* C25: all environments run their episodes in lockstep: in every state of
\* a run from the initial state, every environment's progress counter
\* equals environment 0's and every environment's reset flag equals
\* environment 0's.
C25_Lockstep ==
    \A e \in Envs :
        /\ progress_buf[e] = progress_buf[0]
        /\ reset_buf[e] = reset_buf[0]

\* The last step of an episode counted and flagged in the last environment.
C25_Witness ==
    /\ last_op = "compute_reward"
    /\ progress_buf[NumEnvs - 1] = task_yaml_params.max_episode_length - 1
    /\ reset_buf[NumEnvs - 1] = 1

\* ---------------------------------------------------------------- C26
\* C26: when post_physics_step returns with an environment's progress
\* counter at max_episode_length - 1, its reset flag is set; when the
\* policy's actions are applied as targets every flagged environment has
\* been reset by reset_idx (it is in env_ids, its progress counter is 0 and
\* its flag is 0); and no step but the end of reset_idx lowers a flag.
C26_FlaggedThenResetBeforeActions ==
    [][/\ loc' = "step" =>
            \A e \in Envs :
                progress_buf'[e] = task_yaml_params.max_episode_length - 1
                    => reset_buf'[e] = 1
       /\ (site' = "policy" /\ site # "policy") =>
            \A e \in Envs :
                /\ reset_buf'[e] = 0
                /\ reset_buf[e] = 1 => (e \in env_ids /\ progress_buf'[e] = 0)
       /\ (\E e \in Envs : reset_buf'[e] < reset_buf[e]) =>
            /\ loc = "reset_finish"
            /\ \A e \in Envs : reset_buf'[e] < reset_buf[e] => e \in env_ids
      ]_vars

\* The policy's actions applied after the reset that followed a finished
\* episode.
C26_Witness ==
    /\ site = "policy"
    /\ loc = "gen"
    /\ reset_buf = Repeat(0)
    /\ progress_buf = Repeat(0)
    /\ rew_buf # Repeat(0)

\* ---------------------------------------------------------------- C27
\* C27: with max_episode_length >= 2 every environment's progress counter
\* is always in 0 .. max_episode_length - 1.
C27_ProgressInRange ==
    task_yaml_params.max_episode_length >= 2 =>
        \A e \in Envs :
            /\ progress_buf[e] >= 0
            /\ progress_buf[e] <= task_yaml_params.max_episode_length - 1

\* A second episode begun: the counter came back from the top of its range.
C27_Witness ==
    /\ last_op = "post_physics_step"
    /\ progress_buf = Repeat(1)
    /\ rew_buf # Repeat(0)

\* ---------------------------------------------------------------- C28
\* C28: with close_and_lift, the close starts only in the post_physics_step
\* in which the progress counter becomes max_episode_length - 1 and starts
\* in that one; the lift starts only when the close has run its last
\* simulation step; the refresh that precedes observations and reward
\* comes only after the lift's last step; in every other post_physics_step
\* neither runs and the refresh follows directly.
C28_CloseThenLiftOnLastStepOnly ==
    [][/\ last_op' = "post_physics_step" =>
            IF /\ task_yaml_params.close_and_lift
               /\ progress_buf'[0] = task_yaml_params.max_episode_length - 1
            THEN site' = "close" /\ loc' = "gen"
            ELSE site' = site /\ loc' = "post_refresh"
       /\ (site' = "close" /\ site # "close") => last_op' = "post_physics_step"
       /\ (site' = "lift" /\ site # "lift") =>
            site = "close" /\ last_op' = "simulate" /\ iter = 1
       /\ (loc' = "post_refresh" /\ loc # "post_refresh") =>
            \/ last_op' = "post_physics_step"
            \/ site = "lift" /\ last_op' = "simulate" /\ iter' = 0
       /\ site' \in { "close", "lift" } =>
            /\ task_yaml_params.close_and_lift
            /\ progress_buf'[0] = task_yaml_params.max_episode_length - 1
      ]_vars

\* The lift's last simulation step done, the refresh next.
C28_Witness ==
    /\ site = "lift"
    /\ last_op = "simulate"
    /\ loc = "post_refresh"
    /\ task_yaml_params.close_and_lift

====
